---- MODULE Spec2Model ----
(***************************************************************************)
(* Model of the rendering core of paper-analyzer:                          *)
(*   - PowerPointGenerator (analyzer/ppt_generator.py): the slide          *)
(*     renderer _add_formatted_text, the section plan of generate() and    *)
(*     the content guard of generate_powerpoint();                         *)
(*   - export_analysis_pdf (analyzer/views.py): add_section and the        *)
(*     line scanner parse_markdown_to_flowables.                           *)
(* Text is a sequence of one-character strings, so that strip, split,      *)
(* startswith, slicing and the regular expressions are computed the way    *)
(* Python computes them.                                                   *)
(***************************************************************************)
EXTENDS Integers, Sequences, FiniteSets, TLC

VARIABLES
    \* ---- one _add_formatted_text call (slide renderer) ----
    content,            \* the content argument
    line_no,            \* number of lines of content already visited
    text_frame,         \* paragraphs of the text frame, in order
    current_paragraph,  \* index into text_frame, 0 for None
    bullet_count,       \* the local bullet_count
    fpc,                \* position of the call: "entry", "loop", "broke", "returned"
    \* ---- one generate_powerpoint call (slide deck assembler) ----
    analysis_data,      \* the analysis_data mapping (absent keys are not in DOMAIN)
    slides,             \* self.prs.slides, in order
    gpc,                \* position inside generate_powerpoint / generate
    outcome,            \* "none", "buffer", "ValueError"
    \* ---- one parse_markdown_to_flowables call (document renderer) ----
    text,               \* the text argument
    i,                  \* the index i into lines
    flowables,          \* the flowables built so far
    iterations,         \* number of outer-loop iterations executed (ghost)
    dpc,                \* "entry", "loop", "returned"
    \* ---- one export_analysis_pdf request (report assembler) ----
    analysis,           \* the stored PaperAnalysis record (nine text fields)
    story,              \* the story list
    ppc,                \* position inside export_analysis_pdf
    response,           \* "none", "pdf", "json500"
    \* ---- one _add_content_to_frame call (overflow onto continuation slides) ----
    max_slides,         \* the max_slides argument
    current_slide,      \* the local current_slide
    cpc,                \* "idle", "render", "loop", "returned"
    \* ---- the same renderer called a second time on the same text ----
    call_no,            \* 0 (no such experiment), 1 or 2
    first_output,       \* what the first call produced
    \* ---- one request to a view that generates a file ----
    view,               \* name of the view, "none" outside such a request
    http_response,      \* <<kind, status, error, text of the exception in it>>
    save_to_db,         \* request.POST 'save_to_db' is 'true'
    records,            \* the rows of the database: <<model, id, user, stored file>>
    \* ---- one analyze_pdf request, down to the requests of _call_openrouter ----
    pdf_file,           \* <<in FILES, name, size - max_size_bytes, extraction ok, len(text.strip())>>
    apc,                \* position of the request
    api_calls,          \* the chat completion requests sent: <<response_format, kind, content>>
    call_result,        \* what analyze_paper did: <<status, kind, text>>
    \* ---- one request to a view that names a record ----
    record_id,          \* the id in the URL
    files               \* the files in the media storage

vars == <<content, line_no, text_frame, current_paragraph, bullet_count, fpc,
          analysis_data, slides, gpc, outcome,
          text, i, flowables, iterations, dpc,
          analysis, story, ppc, response,
          max_slides, current_slide, cpc,
          call_no, first_output,
          view, http_response, save_to_db, records,
          pdf_file, apc, api_calls, call_result, record_id, files>>

slideVars == <<content, line_no, text_frame, current_paragraph, bullet_count, fpc>>
deckVars  == <<analysis_data, slides, gpc, outcome>>
docVars   == <<text, i, flowables, iterations, dpc>>
pdfVars   == <<analysis, story, ppc, response>>
frameVars == <<max_slides, current_slide, cpc>>
againVars == <<call_no, first_output>>
analyzeVars == <<pdf_file, apc, api_calls, call_result>>
ownerVars == <<record_id, files>>
viewVars  == <<view, http_response, save_to_db, records, analyzeVars, ownerVars>>

----------------------------------------------------------------------------
(* Python str primitives over sequences of characters.                     *)

NL == "\n"

\* the backtick character, which a TLA+ string literal cannot hold
Backtick == "BACKTICK"

\* str.isspace() for the characters of the model's alphabet
IsSpace(c) == c \in {" ", "\t", "\n", "\r"}

\* str.isupper() of one character
IsUpper(c) ==
    c \in {"A", "B", "C", "D", "E", "F", "G", "H", "I", "J", "K", "L", "M",
           "N", "O", "P", "Q", "R", "S", "T", "U", "V", "W", "X", "Y", "Z"}

\* str.isdigit() of one character (\d of the regular expressions)
IsDigit(c) == c \in {"0", "1", "2", "3", "4", "5", "6", "7", "8", "9"}

RECURSIVE LStrip(_)
LStrip(s) == IF s # <<>> /\ IsSpace(Head(s)) THEN LStrip(Tail(s)) ELSE s

RECURSIVE RStrip(_)
RStrip(s) ==
    IF s # <<>> /\ IsSpace(s[Len(s)]) THEN RStrip(SubSeq(s, 1, Len(s) - 1)) ELSE s

Strip(s) == RStrip(LStrip(s))

\* s[n:]
From(s, n) == SubSeq(s, n + 1, Len(s))

\* s[:n]
UpTo(s, n) == IF Len(s) <= n THEN s ELSE SubSeq(s, 1, n)

StartsWith(s, p) == Len(s) >= Len(p) /\ SubSeq(s, 1, Len(p)) = p

EndsWith(s, p) == Len(s) >= Len(p) /\ SubSeq(s, Len(s) - Len(p) + 1, Len(s)) = p

\* least k >= from with s[k..] starting with sub (1-based), 0 when there is none
FindFrom(s, sub, from) ==
    LET hits == {k \in from..(Len(s) - Len(sub) + 1) :
                    SubSeq(s, k, k + Len(sub) - 1) = sub}
    IN  IF hits = {} THEN 0 ELSE CHOOSE k \in hits : \A j \in hits : k <= j

\* sub in s
Contains(s, sub) == FindFrom(s, sub, 1) # 0

\* s.split(sep) for a non-empty sep
RECURSIVE Split(_, _)
Split(s, sep) ==
    LET k == FindFrom(s, sep, 1)
    IN  IF k = 0 THEN <<s>>
        ELSE <<SubSeq(s, 1, k - 1)>> \o Split(From(s, k + Len(sep) - 1), sep)

\* sep.join(parts)
RECURSIVE Join(_, _)
Join(parts, sep) ==
    IF parts = <<>> THEN <<>>
    ELSE IF Len(parts) = 1 THEN parts[1]
    ELSE parts[1] \o sep \o Join(Tail(parts), sep)

\* re.sub(m (.*?) m, open \1 close, s): leftmost, non-overlapping, non-greedy.
\* The first match starts at the first occurrence p of the marker m and ends
\* at the first occurrence j of m after it (when p has no later occurrence,
\* no later start has one either); the scan resumes behind the match.
RECURSIVE ReSubPair(_, _, _, _)
ReSubPair(s, m, open, close) ==
    LET p == FindFrom(s, m, 1)
        j == IF p = 0 THEN 0 ELSE FindFrom(s, m, p + Len(m))
    IN  IF j = 0 THEN s
        ELSE SubSeq(s, 1, p - 1) \o open \o SubSeq(s, p + Len(m), j - 1) \o close
                 \o ReSubPair(From(s, j + Len(m) - 1), m, open, close)

\* the string with n copies of character c
Rep(c, n) == [k \in 1..n |-> c]

Ellipsis == <<".", ".", ".">>

----------------------------------------------------------------------------
(* The slide renderer: PowerPointGenerator._add_formatted_text.            *)

max_bullets_per_slide == 6
ItemLimit == 100
ItemKeep == 97
ParagraphLimit == 150
ParagraphKeep == 147

\* _parse_inline_formatting: the three re.sub calls, in order
ParseInlineFormatting(t) ==
    LET bold   == ReSubPair(t, <<"*", "*">>, <<>>, <<>>)
        italic == ReSubPair(bold, <<"*">>, <<>>, <<>>)
    IN  ReSubPair(italic, <<Backtick>>, <<>>, <<>>)

\* the bullet test: stripped starts with dash-space or star-space
IsBullet(stripped) ==
    StartsWith(stripped, <<"-", " ">>) \/ StartsWith(stripped, <<"*", " ">>)

\* number of leading digits of s
RECURSIVE DigitCount(_)
DigitCount(s) ==
    IF s # <<>> /\ IsDigit(Head(s)) THEN 1 + DigitCount(Tail(s)) ELSE 0

\* re.match(r'^(\d+)\.\s+(.*)$', stripped) is not None ('.' matches no newline)
NumberedMatch(stripped) ==
    LET d == DigitCount(stripped)
    IN  /\ d >= 1
        /\ Len(stripped) >= d + 2
        /\ stripped[d + 1] = "."
        /\ IsSpace(stripped[d + 2])
        /\ ~Contains(LStrip(From(stripped, d + 1)), <<NL>>)

\* numbered_match.group(2): what follows the greedy \s+
NumberedGroup2(stripped) == LStrip(From(stripped, DigitCount(stripped) + 1))

\* mutant of TruncateItem: the comparison also cuts a text of exactly the limit
TruncateItem_CutsAtLimit(t) ==
    IF Len(t) >= ItemLimit THEN UpTo(t, ItemKeep) \o Ellipsis ELSE t

\* if len(bullet_text) > 100: bullet_text = bullet_text[:97] + "..."
TruncateItem(t) ==
    IF Len(t) > ItemLimit THEN UpTo(t, ItemKeep) \o Ellipsis ELSE t

\* if len(para_text) > 150: para_text = para_text[:147] + "..."
TruncateParagraph(t) ==
    IF Len(t) > ParagraphLimit THEN UpTo(t, ParagraphKeep) \o Ellipsis ELSE t

\* mutant of BulletLimitReached: off by one, a seventh item gets through
BulletLimitReached_OffByOne(count) == count > max_bullets_per_slide

\* bullet_count >= max_bullets_per_slide
BulletLimitReached(count) == count >= max_bullets_per_slide

\* text_frame.add_paragraph() followed by the assignments to p
NewParagraph(kind, t) == [text |-> t, kind |-> kind]

\* A fresh text box holds one empty paragraph (python-pptx), which
\* add_paragraph() never reuses.
FreshFrame == <<NewParagraph("initial", <<>>)>>

\* the locals of the call before the first line
FreshRender(frame) == [count |-> 0, frame |-> frame, cur |-> 0, stop |-> FALSE]

Emit(rs, kind, t, count) ==
    [count |-> count,
     frame |-> Append(rs.frame, NewParagraph(kind, t)),
     cur   |-> Len(rs.frame) + 1,
     stop  |-> FALSE]

\* the body of "for line in lines" for one line; stop is the break
ProcessLine(rs, line) ==
    LET stripped == Strip(line)
    IN  IF stripped = <<>>
        THEN IF rs.cur # 0 THEN Emit(rs, "blank", <<>>, rs.count) ELSE rs
        ELSE IF StartsWith(stripped, <<"#", "#", "#">>)
        THEN Emit(rs, "header", Strip(From(stripped, 3)), 0)
        ELSE IF IsBullet(stripped)
        THEN IF BulletLimitReached(rs.count)
             THEN [rs EXCEPT !.stop = TRUE]
             ELSE Emit(rs, "bullet",
                       ParseInlineFormatting(TruncateItem(Strip(From(stripped, 2)))),
                       rs.count + 1)
        ELSE IF NumberedMatch(stripped)
        THEN IF BulletLimitReached(rs.count)
             THEN [rs EXCEPT !.stop = TRUE]
             ELSE Emit(rs, "numbered",
                       ParseInlineFormatting(TruncateItem(NumberedGroup2(stripped))),
                       rs.count + 1)
        ELSE LET para_text == TruncateParagraph(ParseInlineFormatting(stripped))
             IN  IF rs.cur # 0 /\ ~IsUpper(stripped[1])
                 THEN [rs EXCEPT !.frame[rs.cur].text = @ \o <<" ">> \o para_text]
                 ELSE Emit(rs, "para", para_text, rs.count + 1)

\* the for loop from line k on
RECURSIVE RenderFrom(_, _, _)
RenderFrom(rs, lines, k) ==
    IF k > Len(lines) \/ rs.stop THEN rs
    ELSE RenderFrom(ProcessLine(rs, lines[k]), lines, k + 1)

\* _add_formatted_text(text_frame, content): the frame after the call
AddFormattedText(frame, c) ==
    IF c = <<>> THEN frame
    ELSE RenderFrom(FreshRender(frame), Split(c, <<NL>>), 1).frame

\* text_frame.text: the paragraphs' texts joined by newlines
FrameText(frame) == Join([k \in 1..Len(frame) |-> frame[k].text], <<NL>>)

----------------------------------------------------------------------------
(* Inputs of the renderers: field texts built from a few lines.            *)

MaxLines == 3    \* longest content made of arbitrary short lines
MaxRun == 7      \* longest run of consecutive list items
MaxTail == 2     \* arbitrary short lines after a run or after a long line

LineBlank  == <<>>
LineHeader == <<"#", "#", "#", " ", "H">>
LineBullet == <<"-", " ", "b">>
LineNumber == <<"1", ".", " ", "n">>
LinePara   == <<"P", "a">>
LineCont   == <<"c", "o">>

ShortLines == {LineBlank, LineHeader, LineBullet, LineNumber, LinePara, LineCont}

SeqsUpTo(S, n) == UNION {[1..k -> S] : k \in 0..n}

\* runs of list items, optionally after a paragraph, followed by a short tail
RunContents ==
    {pre \o [k \in 1..n |-> item] \o tail :
        pre \in {<<>>, <<LinePara>>}, item \in {LineBullet, LineNumber},
        n \in 1..MaxRun, tail \in SeqsUpTo(ShortLines, MaxTail)}

\* lines whose text is one character under, at and one character over the
\* truncation limit, plain and with a bold marker in front
LongLines ==
    UNION {{ <<"-", " ">> \o Rep("b", ItemLimit + d),
             <<"*", " ">> \o <<"*", "*", "b", "*", "*">> \o Rep("b", ItemLimit + d - 5),
             <<"2", ".", " ">> \o Rep("n", ItemLimit + d),
             <<"P">> \o Rep("a", ParagraphLimit + d - 1),
             <<"P", "*", "*", "a", "*", "*">> \o Rep("a", ParagraphLimit + d - 2),
             <<"c">> \o Rep("a", ParagraphLimit + d - 1) } : d \in {-1, 0, 1}}

LongContents ==
    {pre \o <<l>> \o tail :
        pre \in {<<>>, <<LineBullet>>}, l \in LongLines,
        tail \in SeqsUpTo(ShortLines, MaxTail - 1)}

\* the content strings handed to _add_formatted_text
SlideContents ==
    {Join(ls, <<NL>>) :
        ls \in SeqsUpTo(ShortLines, MaxLines) \cup RunContents \cup LongContents}

----------------------------------------------------------------------------
(* One _add_formatted_text call on a fresh text frame, line by line.       *)

IdleSlide ==
    /\ content = <<>> /\ line_no = 0 /\ text_frame = <<>>
    /\ current_paragraph = 0 /\ bullet_count = 0 /\ fpc = "idle"

IdleDeck == analysis_data = <<>> /\ slides = <<>> /\ gpc = "idle" /\ outcome = "none"

IdleDoc == text = <<>> /\ i = 0 /\ flowables = <<>> /\ iterations = 0 /\ dpc = "idle"

IdlePdf == analysis = <<>> /\ story = <<>> /\ ppc = "idle" /\ response = "none"

IdleFrame == max_slides = 0 /\ current_slide = 0 /\ cpc = "idle"

IdleAgain == call_no = 0 /\ first_output = <<>>

\* analyze_paper has not been called
NotCalled == <<"none", "", <<>>>>

IdleAnalyze == pdf_file = <<>> /\ apc = "idle" /\ api_calls = <<>> /\ call_result = NotCalled

IdleOwner == record_id = 0 /\ files = {}

\* no response has been returned yet
NoResponse == <<"none", 0, "", "">>

IdleView ==
    /\ view = "none" /\ http_response = NoResponse
    /\ save_to_db = FALSE /\ records = {}
    /\ IdleAnalyze /\ IdleOwner

\* lines = content.split(newline)
Lines == Split(content, <<NL>>)

InitSlide ==
    /\ content \in SlideContents
    /\ line_no = 0
    /\ text_frame = FreshFrame
    /\ current_paragraph = 0
    /\ bullet_count = 0
    /\ fpc = "entry"
    /\ IdleDeck /\ IdleDoc /\ IdlePdf
    /\ IdleFrame /\ IdleAgain /\ IdleView

\* if not content: return
FmtEmpty ==
    /\ fpc = "entry" /\ content = <<>>
    /\ fpc' = "returned"
    /\ UNCHANGED <<content, line_no, text_frame, current_paragraph, bullet_count>>
    /\ UNCHANGED <<deckVars, docVars, pdfVars>>
    /\ UNCHANGED <<frameVars, againVars, viewVars>>

\* lines = content.split(...); the locals are initialised
FmtStart ==
    /\ fpc = "entry" /\ content # <<>>
    /\ fpc' = "loop"
    /\ UNCHANGED <<content, line_no, text_frame, current_paragraph, bullet_count>>
    /\ UNCHANGED <<deckVars, docVars, pdfVars>>
    /\ UNCHANGED <<frameVars, againVars, viewVars>>

\* one pass of the body of the for loop
FmtLine ==
    /\ fpc = "loop" /\ line_no < Len(Lines)
    /\ LET rs == ProcessLine([count |-> bullet_count, frame |-> text_frame,
                              cur |-> current_paragraph, stop |-> FALSE],
                             Lines[line_no + 1])
       IN  /\ text_frame' = rs.frame
           /\ current_paragraph' = rs.cur
           /\ bullet_count' = rs.count
           /\ fpc' = IF rs.stop THEN "broke" ELSE "loop"
    /\ line_no' = line_no + 1
    /\ UNCHANGED content
    /\ UNCHANGED <<deckVars, docVars, pdfVars>>
    /\ UNCHANGED <<frameVars, againVars, viewVars>>

\* a limit that skips the line and goes on with the next one
FmtReturn_GoesOn ==
    /\ \/ fpc = "loop" /\ line_no = Len(Lines) /\ fpc' = "returned"
       \/ fpc = "broke" /\ fpc' = "loop"
    /\ UNCHANGED <<content, line_no, text_frame, current_paragraph, bullet_count>>
    /\ UNCHANGED <<deckVars, docVars, pdfVars>>
    /\ UNCHANGED <<frameVars, againVars, viewVars>>

\* the loop is left (exhausted or by break) and the call returns
FmtReturn ==
    /\ \/ fpc = "loop" /\ line_no = Len(Lines)
       \/ fpc = "broke"
    /\ fpc' = "returned"
    /\ UNCHANGED <<content, line_no, text_frame, current_paragraph, bullet_count>>
    /\ UNCHANGED <<deckVars, docVars, pdfVars>>
    /\ UNCHANGED <<frameVars, againVars, viewVars>>

NextSlide == FmtEmpty \/ FmtStart \/ FmtLine \/ FmtReturn

SpecSlide == InitSlide /\ [][NextSlide]_vars

----------------------------------------------------------------------------
(* Claims about one _add_formatted_text call (SpecSlide).                  *)

IsItem(par) == par.kind \in {"bullet", "numbered"}

\* the list items of the first k paragraphs that no later header (up to k) follows
ItemsSinceHeader(frame, k) ==
    {j \in 1..k : IsItem(frame[j]) /\ \A h \in (j + 1)..k : frame[h].kind # "header"}

\* C8 as stated: one call never puts more than 6 bullet or numbered items
\* into the text frame, whatever the content.
C8_AtMostSixItemsPerCall ==
    Cardinality({j \in 1..Len(text_frame) : IsItem(text_frame[j])})
        <= max_bullets_per_slide

\* C8 as amended: the count is reset by every ### header, so the limit of 6
\* holds for the items emitted since the latest header (or since the start of
\* the call), at every point of the frame.
C8_AtMostSixItemsSinceHeader ==
    \A k \in 1..Len(text_frame) :
        Cardinality(ItemsSinceHeader(text_frame, k)) <= max_bullets_per_slide

\* the limit has acted: a list line met a full count and the loop was left
C8_Witness ==
    /\ fpc = "broke"
    /\ Cardinality(ItemsSinceHeader(text_frame, Len(text_frame))) = max_bullets_per_slide

\* C9 as stated: after a call every paragraph holding bullet or numbered text
\* has at most 100 characters and every paragraph holding plain paragraph
\* text has at most 150.
C9_ParagraphLengthsBounded ==
    \A k \in 1..Len(text_frame) :
        /\ IsItem(text_frame[k]) => Len(text_frame[k].text) <= ItemLimit
        /\ text_frame[k].kind = "para" => Len(text_frame[k].text) <= ParagraphLimit

\* the line the loop has just processed without leaving the loop
JustProcessed == fpc = "loop" /\ line_no >= 1
LastStripped == Strip(Lines[line_no])
LastIsItem == IsBullet(LastStripped) \/ NumberedMatch(LastStripped)
LastIsParagraph ==
    /\ LastStripped # <<>>
    /\ ~StartsWith(LastStripped, <<"#", "#", "#">>)
    /\ ~LastIsItem
\* the text the length test of that line is applied to
LastItemText ==
    IF IsBullet(LastStripped) THEN Strip(From(LastStripped, 2))
    ELSE NumberedGroup2(LastStripped)
LastParagraphText == ParseInlineFormatting(LastStripped)
LastEmitted == text_frame[current_paragraph].text
MarkerFree(t) == ~Contains(t, <<"*">>) /\ ~Contains(t, <<Backtick>>)
Cut(t, limit) == UpTo(t, limit - Len(Ellipsis)) \o Ellipsis

\* C10: a list item text or paragraph text of exactly the limit (100, 150)
\* is emitted whole; one character more and it is cut to (limit - 3)
\* characters followed by the ellipsis.
C10_TruncationBoundary ==
    JustProcessed =>
        /\ (LastIsItem /\ Len(LastItemText) = ItemLimit) =>
              /\ LastEmitted = ParseInlineFormatting(LastItemText)
              /\ MarkerFree(LastItemText) => LastEmitted = LastItemText
        /\ (LastIsItem /\ Len(LastItemText) = ItemLimit + 1) =>
              /\ LastEmitted = ParseInlineFormatting(Cut(LastItemText, ItemLimit))
              /\ EndsWith(LastEmitted, Ellipsis)
              /\ MarkerFree(LastItemText) =>
                    /\ Len(LastEmitted) = ItemLimit
                    /\ UpTo(LastEmitted, ItemLimit - Len(Ellipsis))
                           = UpTo(LastItemText, ItemLimit - Len(Ellipsis))
        /\ (LastIsParagraph /\ Len(LastParagraphText) = ParagraphLimit) =>
              EndsWith(LastEmitted, LastParagraphText)
        /\ (LastIsParagraph /\ Len(LastParagraphText) = ParagraphLimit + 1) =>
              /\ EndsWith(LastEmitted, Cut(LastParagraphText, ParagraphLimit))
              /\ ~EndsWith(LastEmitted, LastParagraphText)

\* a list item one character over the limit has been emitted, cut
C10_Witness ==
    /\ JustProcessed /\ LastIsItem
    /\ Len(LastItemText) = ItemLimit + 1
    /\ Len(LastEmitted) = ItemLimit
    /\ EndsWith(LastEmitted, Ellipsis)

----------------------------------------------------------------------------
(* The document renderer: parse_markdown_to_flowables and                  *)
(* markdown_to_html_inline, nested in export_analysis_pdf.                 *)

TagB      == <<"<", "b", ">">>
TagBEnd   == <<"<", "/", "b", ">">>
TagI      == <<"<", "i", ">">>
TagIEnd   == <<"<", "/", "i", ">">>
TagCode   == <<"<", "c", "o", "d", "e", ">">>
TagCodeEnd == <<"<", "/", "c", "o", "d", "e", ">">>
TagBr     == <<"<", "b", "r", "/", ">">>
BulletDot == <<"BULLETDOT", " ">>     \* the bullet character and a space

\* whether \[([^\]]+)\]\(([^)]+)\) matches at position p of s
LinkAt(s, p) ==
    /\ s[p] = "["
    /\ LET q == FindFrom(s, <<"]">>, p + 1)
       IN  /\ q > p + 1
           /\ q + 1 <= Len(s)
           /\ s[q + 1] = "("
           /\ FindFrom(s, <<")">>, q + 2) > q + 2

\* re.sub of the link pattern by <a href="\2">\1</a>
RECURSIVE ReSubLink(_)
ReSubLink(s) ==
    LET starts == {p \in 1..Len(s) : LinkAt(s, p)}
    IN  IF starts = {} THEN s
        ELSE LET p == CHOOSE a \in starts : \A b \in starts : a <= b
                 q == FindFrom(s, <<"]">>, p + 1)
                 r == FindFrom(s, <<")">>, q + 2)
             IN  SubSeq(s, 1, p - 1)
                   \o <<"<", "a", " ", "h", "r", "e", "f", "=", "\"">>
                   \o SubSeq(s, q + 2, r - 1) \o <<"\"", ">">>
                   \o SubSeq(s, p + 1, q - 1) \o <<"<", "/", "a", ">">>
                   \o ReSubLink(From(s, r))

\* markdown_to_html_inline: the six re.sub calls, in order
MarkdownToHtmlInline(t) ==
    LET b1 == ReSubPair(t, <<"*", "*">>, TagB, TagBEnd)
        b2 == ReSubPair(b1, <<"_", "_">>, TagB, TagBEnd)
        i1 == ReSubPair(b2, <<"*">>, TagI, TagIEnd)
        i2 == ReSubPair(i1, <<"_">>, TagI, TagIEnd)
        c  == ReSubPair(i2, <<Backtick>>, TagCode, TagCodeEnd)
    IN  ReSubLink(c)

\* the fence test: stripped starts with three backticks or three tildes
IsFence(stripped) ==
    \/ StartsWith(stripped, <<Backtick, Backtick, Backtick>>)
    \/ StartsWith(stripped, <<"~", "~", "~">>)

\* len(line) - len(line.lstrip())
Indent(line) == Len(line) - Len(LStrip(line))

Flowable(kind, t, style, indent) ==
    [text |-> t, kind |-> kind, style |-> style, indent |-> indent]

Spacer(height) == Flowable("spacer", <<>>, height, 0)

\* mutant of CodeEnd: without a closing fence the block ends one line early
CodeEnd_StopsBeforeLast(lines, k) ==
    LET closing == {j \in (k + 2)..Len(lines) : IsFence(Strip(lines[j]))}
    IN  IF closing = {} THEN Len(lines)
        ELSE CHOOSE j \in closing : \A h \in closing : j <= h

\* the code block branch at index k (0-based, a fence line): the index behind
\* the block and the flowable
CodeEnd(lines, k) ==
    LET closing == {j \in (k + 2)..Len(lines) : IsFence(Strip(lines[j]))}
    IN  IF closing = {} THEN Len(lines) + 1
        ELSE CHOOSE j \in closing : \A h \in closing : j <= h

CodeBlock(lines, k) ==
    LET e == CodeEnd(lines, k)
    IN  [i |-> e,
         out |-> <<Flowable("code",
                            TagCode \o Join(SubSeq(lines, k + 2, e - 1), TagBr)
                                    \o TagCodeEnd,
                            "code_style", 0)>>]

IsListLine(stripped) == IsBullet(stripped) \/ NumberedMatch(stripped)

\* the flowable of one list line: the bullet marker is replaced, a number is kept
ListItem(line, kind, style, indent) ==
    LET stripped == Strip(line)
    IN  IF IsBullet(stripped)
        THEN Flowable(kind, BulletDot \o MarkdownToHtmlInline(Strip(From(stripped, 2))),
                      style, indent)
        ELSE Flowable(kind, MarkdownToHtmlInline(stripped), style, indent)

\* mutant of NestedItems: the index is moved past the line that ends the
\* nested run, so the outer loop never sees that line
RECURSIVE NestedItems_SwallowsStop(_, _, _)
NestedItems_SwallowsStop(lines, j, base_indent) ==
    IF j >= Len(lines) THEN [i |-> j, out |-> <<>>]
    ELSE LET next_line == lines[j + 1]
         IN  IF Strip(next_line) = <<>> THEN [i |-> j, out |-> <<>>]
             ELSE IF Indent(next_line) > base_indent /\ IsListLine(Strip(next_line))
             THEN LET rest == NestedItems_SwallowsStop(lines, j + 1, base_indent)
                  IN  [i |-> rest.i,
                       out |-> <<ListItem(next_line, "nested", "Nested",
                                          20 + Indent(next_line))>> \o rest.out]
             ELSE [i |-> j + 1, out |-> <<>>]

\* the nested-items loop: j is the 0-based index of the next line
RECURSIVE NestedItems(_, _, _)
NestedItems(lines, j, base_indent) ==
    IF j >= Len(lines) THEN [i |-> j, out |-> <<>>]
    ELSE LET next_line == lines[j + 1]
         IN  IF Strip(next_line) = <<>> THEN [i |-> j, out |-> <<>>]
             ELSE IF Indent(next_line) > base_indent /\ IsListLine(Strip(next_line))
             THEN LET rest == NestedItems(lines, j + 1, base_indent)
                  IN  [i |-> rest.i,
                       out |-> <<ListItem(next_line, "nested", "Nested",
                                          20 + Indent(next_line))>> \o rest.out]
             ELSE [i |-> j, out |-> <<>>]

\* mutant of ListGroup: the index is left behind the item itself, so the outer
\* loop goes through the nested lines a second time
ListGroup_NestedTwice(lines, k) ==
    [i |-> k + 1,
     out |-> <<ListItem(lines[k + 1], "item", "list_item_style", 0)>>
               \o NestedItems(lines, k + 1, Indent(lines[k + 1])).out
               \o <<Spacer("0.05in")>>]

\* the list branch at index k (0-based)
ListGroup(lines, k) ==
    LET line == lines[k + 1]
        nested == NestedItems(lines, k + 1, Indent(line))
    IN  [i |-> nested.i,
         out |-> <<ListItem(line, "item", "list_item_style", 0)>>
                   \o nested.out \o <<Spacer("0.05in")>>]

\* the header branch (### before ##)
HeaderBlock(lines, k) ==
    LET stripped == Strip(lines[k + 1])
        cut == IF StartsWith(stripped, <<"#", "#", "#">>) THEN 3 ELSE 2
    IN  [i |-> k + 1,
         out |-> <<Flowable("header",
                            TagB \o MarkdownToHtmlInline(Strip(From(stripped, cut)))
                                 \o TagBEnd,
                            "body_style", 0),
                   Spacer("0.1in")>>]

\* the tests that end the paragraph loop
ParagraphStops(curr_stripped) ==
    \/ curr_stripped = <<>>
    \/ IsBullet(curr_stripped)
    \/ NumberedMatch(curr_stripped)
    \/ StartsWith(curr_stripped, <<"#">>)
    \/ IsFence(curr_stripped)

\* the paragraph loop from index j (0-based): the stripped lines collected
RECURSIVE ParaLines(_, _)
ParaLines(lines, j) ==
    IF j >= Len(lines) \/ ParagraphStops(Strip(lines[j + 1])) THEN <<>>
    ELSE <<Strip(lines[j + 1])>> \o ParaLines(lines, j + 1)

\* the paragraph branch at index k: nothing is emitted and i stays when the
\* first line already stops the loop
ParagraphBlock(lines, k) ==
    LET para_lines == ParaLines(lines, k)
    IN  [i |-> k + Len(para_lines),
         out |-> IF para_lines = <<>> THEN <<>>
                 ELSE <<Flowable("para", MarkdownToHtmlInline(Join(para_lines, <<" ">>)),
                                 "body_style", 0),
                        Spacer("0.1in")>>]

\* one pass of the body of "while i < len(lines)" at index k
OuterIteration(lines, k) ==
    LET stripped == Strip(lines[k + 1])
    IN  IF stripped = <<>> THEN [i |-> k + 1, out |-> <<>>]
        ELSE IF IsFence(stripped) THEN CodeBlock(lines, k)
        ELSE IF IsListLine(stripped) THEN ListGroup(lines, k)
        ELSE IF StartsWith(stripped, <<"#", "#">>) THEN HeaderBlock(lines, k)
        ELSE ParagraphBlock(lines, k)

\* the while loop from index k on; hang marks a pass that left i where it
\* was, which the code then repeats without end
RECURSIVE ParseFrom(_, _, _)
ParseFrom(lines, k, acc) ==
    IF k >= Len(lines) THEN [out |-> acc, hang |-> FALSE]
    ELSE LET r == OuterIteration(lines, k)
         IN  IF r.i = k THEN [out |-> acc, hang |-> TRUE]
             ELSE ParseFrom(lines, r.i, acc \o r.out)

\* parse_markdown_to_flowables(text, ...)
ParseMarkdown(t) ==
    IF t = <<>> THEN [out |-> <<>>, hang |-> FALSE]
    ELSE ParseFrom(Split(t, <<NL>>), 0, <<>>)

----------------------------------------------------------------------------
(* One parse_markdown_to_flowables call, one outer-loop iteration a step.  *)

MaxDocLines == 3    \* longest text handed to the document renderer, in lines

DocHash1    == <<"#", " ", "T">>
DocHash2    == <<"#", "#", " ", "H">>
DocNestedBullet == <<" ", " ", "-", " ", "n">>
DocIndented == <<" ", " ", "m", "o">>
DocFence    == <<Backtick, Backtick, Backtick>>

DocLineChoices ==
    {LineBlank, LineHeader, DocHash2, DocHash1, LineBullet, DocNestedBullet,
     LineNumber, LinePara, DocIndented, DocFence}

\* the text strings handed to parse_markdown_to_flowables
DocTexts == {Join(ls, <<NL>>) : ls \in SeqsUpTo(DocLineChoices, MaxDocLines)}

\* lines = text.split(newline)
DocLines == Split(text, <<NL>>)

InitDoc ==
    /\ text \in DocTexts
    /\ i = 0
    /\ flowables = <<>>
    /\ iterations = 0
    /\ dpc = "entry"
    /\ IdleSlide /\ IdleDeck /\ IdlePdf
    /\ IdleFrame /\ IdleAgain /\ IdleView

\* if not text: return []
DocEmpty ==
    /\ dpc = "entry" /\ text = <<>>
    /\ dpc' = "returned"
    /\ UNCHANGED <<text, i, flowables, iterations>>
    /\ UNCHANGED <<slideVars, deckVars, pdfVars>>
    /\ UNCHANGED <<frameVars, againVars, viewVars>>

\* flowables = []; lines = text.split(...); i = 0
DocStart ==
    /\ dpc = "entry" /\ text # <<>>
    /\ dpc' = "loop"
    /\ UNCHANGED <<text, i, flowables, iterations>>
    /\ UNCHANGED <<slideVars, deckVars, pdfVars>>
    /\ UNCHANGED <<frameVars, againVars, viewVars>>

\* One pass of the body of the while loop.  iterations counts the passes; a
\* pass that leaves i where it was is repeated for ever by the code, and is
\* followed here until the count exceeds the number of lines.
DocIteration ==
    /\ dpc = "loop" /\ i < Len(DocLines)
    /\ iterations <= Len(DocLines)
    /\ LET r == OuterIteration(DocLines, i)
       IN  /\ i' = r.i
           /\ flowables' = flowables \o r.out
    /\ iterations' = iterations + 1
    /\ UNCHANGED <<text, dpc>>
    /\ UNCHANGED <<slideVars, deckVars, pdfVars>>
    /\ UNCHANGED <<frameVars, againVars, viewVars>>

\* the loop condition fails: return flowables
DocReturn ==
    /\ dpc = "loop" /\ i >= Len(DocLines)
    /\ dpc' = "returned"
    /\ UNCHANGED <<text, i, flowables, iterations>>
    /\ UNCHANGED <<slideVars, deckVars, pdfVars>>
    /\ UNCHANGED <<frameVars, againVars, viewVars>>

NextDoc == DocEmpty \/ DocStart \/ DocIteration \/ DocReturn

SpecDoc == InitDoc /\ [][NextDoc]_vars

----------------------------------------------------------------------------
(* Claims about one parse_markdown_to_flowables call (SpecDoc).            *)

\* C3: the call terminates, because every iteration of the outer loop
\* consumes at least one line: after n iterations i is at least n.
C3_EveryIterationConsumesALine == i >= iterations

\* the line at index i (0-based) is non-blank and matches no block pattern:
\* no fence, no list marker, no ## or ### heading
AtUnrecognisedLine ==
    /\ dpc = "loop" /\ i < Len(DocLines)
    /\ LET stripped == Strip(DocLines[i + 1])
       IN  /\ stripped # <<>>
           /\ ~IsFence(stripped)
           /\ ~IsListLine(stripped)
           /\ ~StartsWith(stripped, <<"#", "#">>)

\* C4: no line is dropped: the iteration that starts at a non-blank line
\* matching no block pattern emits that line as paragraph text.
C4_UnrecognisedLineBecomesParagraph ==
    [][AtUnrecognisedLine =>
          /\ Len(flowables') > Len(flowables)
          /\ flowables'[Len(flowables) + 1].kind = "para"
          /\ StartsWith(flowables'[Len(flowables) + 1].text,
                        Strip(DocLines[i + 1]))]_vars

----------------------------------------------------------------------------
(* The slide deck assembler: generate_powerpoint and                       *)
(* PowerPointGenerator.generate with its section methods.                  *)

Hashes3 == <<"#", "#", "#">>
RelatedWork == <<"R", "e", "l", "a", "t", "e", "d", " ", "W", "o", "r", "k">>
HdrRelatedWork == <<"#", "#", "#", " ", "R", "e", "l", "a", "t", "e", "d", " ", "W", "o", "r", "k">>
HdrKeyResults == <<"#", "#", "#", " ", "K", "e", "y", " ", "R", "e", "s", "u", "l", "t", "s">>
HdrKeyQuantResults == <<"#", "#", "#", " ", "K", "e", "y", " ", "Q", "u", "a", "n", "t", "i", "t", "a", "t", "i", "v", "e", " ", "R", "e", "s", "u", "l", "t", "s">>
HdrMainFindings == <<"#", "#", "#", " ", "M", "a", "i", "n", " ", "F", "i", "n", "d", "i", "n", "g", "s">>

\* analysis_data.get(field, default)
Get(data, field, default) == IF field \in DOMAIN data THEN data[field] ELSE default

\* the content_fields list of generate_powerpoint
content_fields ==
    <<"introduction", "literature_review", "motivation", "contribution",
      "how_does_paper_do", "what_does_paper_do", "results_analysis",
      "discussion", "conclusion", "future_work">>

\* mutant of HasContent: any non-empty value counts, whatever its key
HasContent_AnyKey(data) == \E f \in DOMAIN data : data[f] # <<>>

\* has_content = any(analysis_data.get(field) for field in content_fields)
HasContent(data) ==
    \E k \in DOMAIN content_fields : Get(data, content_fields[k], <<>>) # <<>>

\* mutant of SectionPresent: the emptiness test is missing
SectionPresent_Always(t) == TRUE

\* the test "x and x.strip()" in front of every section slide
SectionPresent(t) == t # <<>> /\ Strip(t) # <<>>

TitleCover    == "cover"
TitleThankYou == "Thank You!"
TitleContinued == "(Continued)"

Slide(title, frame) == [frame |-> frame, title |-> title]

\* the while loop of _add_content_to_frame: the continuation slides created
\* after a frame whose text ends with the ellipsis (done is current_slide,
\* n is max_slides)
RECURSIVE Continuations(_, _, _, _)
Continuations(frame, c, done, n) ==
    IF EndsWith(FrameText(frame), Ellipsis) /\ done < n - 1
    THEN LET next == AddFormattedText(FreshFrame, c)
         IN  <<Slide(TitleContinued, next)>>
                 \o Continuations(next, c, done + 1, n)
    ELSE <<>>

\* _add_title_slide(title) followed by _add_content_to_frame(frame, c, n)
SectionSlides(title, c, n) ==
    LET frame == AddFormattedText(FreshFrame, c)
    IN  <<Slide(title, frame)>> \o Continuations(frame, c, 0, n)

\* the slides one section method adds: none when its text is not present
SectionIfPresent(title, guard, c, n) ==
    IF SectionPresent(guard) THEN SectionSlides(title, c, n) ELSE <<>>

\* _add_introduction_slide
IntroductionSlides(data) ==
    LET introduction == Get(data, "introduction", Get(data, "abstract", <<>>))
    IN  SectionIfPresent("Introduction", introduction, introduction, 1)

\* the literature_review text of _add_literature_review_slide, with its
\* fallback to the Related Work part of the introduction
LiteratureReviewText(data) ==
    LET given == Get(data, "literature_review", <<>>)
        introduction == Get(data, "introduction", <<>>)
        parts == Split(introduction, HdrRelatedWork)
    IN  IF given # <<>> THEN given
        ELSE IF Contains(introduction, RelatedWork) /\ Len(parts) > 1
        THEN HdrRelatedWork \o <<NL>> \o Split(parts[2], Hashes3)[1]
        ELSE given

\* _add_literature_review_slide
LiteratureReviewSlides(data) ==
    LET t == LiteratureReviewText(data)
    IN  SectionIfPresent("Literature Review", t, t, 1)

\* _add_motivation_slide
MotivationSlides(data) ==
    LET t == Get(data, "motivation", <<>>)
    IN  SectionIfPresent("Problem Statement / Motivation", t, t, 1)

\* _add_main_idea_slide
MainIdeaSlides(data) ==
    LET t == Get(data, "contribution", <<>>)
    IN  SectionIfPresent("Main Idea & Contributions", t, t, 1)

\* overview = sections[0], with sections = methodology.split('###')
Overview(methodology) == Split(methodology, Hashes3)[1]

\* _add_methodology_overview_slide: the text before the first ###
MethodologyOverviewSlides(data) ==
    LET methodology == Get(data, "how_does_paper_do", <<>>)
    IN  SectionIfPresent("Methodology Overview", methodology, Overview(methodology), 1)

\* technical_content: '###'.join(sections[1:]), or the whole text without ###
TechnicalContent(methodology) ==
    LET sections == Split(methodology, Hashes3)
    IN  IF Len(sections) > 1 THEN Join(Tail(sections), Hashes3) ELSE methodology

\* _add_technical_details_slide: what follows the first ###
TechnicalDetailsSlides(data) ==
    LET methodology == Get(data, "how_does_paper_do", <<>>)
    IN  SectionIfPresent("Technical Details", methodology,
                         TechnicalContent(methodology), 1)

\* the loop of _add_experimental_setup_slide: the lines before the first
\* line that contains a results heading
RECURSIVE SetupLines(_)
SetupLines(lines) ==
    IF lines = <<>> THEN <<>>
    ELSE IF \/ Contains(Head(lines), HdrKeyResults)
            \/ Contains(Head(lines), HdrKeyQuantResults)
            \/ Contains(Head(lines), HdrMainFindings)
         THEN <<>>
         ELSE <<Head(lines)>> \o SetupLines(Tail(lines))

\* setup_content: the setup lines joined, or the whole text when there are none
SetupContent(experiments) ==
    LET setup_lines == SetupLines(Split(experiments, <<NL>>))
    IN  IF setup_lines # <<>> THEN Join(setup_lines, <<NL>>) ELSE experiments

\* _add_experimental_setup_slide
ExperimentalSetupSlides(data) ==
    LET experiments == Get(data, "what_does_paper_do", <<>>)
    IN  SectionIfPresent("Experimental Setup", experiments, SetupContent(experiments), 1)

\* the loop of _add_quantitative_results_slide: the lines from the first
\* line that contains a results heading on
RECURSIVE ResultsLines(_)
ResultsLines(lines) ==
    IF lines = <<>> THEN <<>>
    ELSE IF \/ Contains(Head(lines), HdrKeyResults)
            \/ Contains(Head(lines), HdrKeyQuantResults)
         THEN lines
         ELSE ResultsLines(Tail(lines))

\* results_content: the results lines joined, or the whole text when there are none
ResultsContent(experiments) ==
    LET results_lines == ResultsLines(Split(experiments, <<NL>>))
    IN  IF results_lines # <<>> THEN Join(results_lines, <<NL>>) ELSE experiments

\* _add_quantitative_results_slide
QuantitativeResultsSlides(data) ==
    LET experiments == Get(data, "what_does_paper_do", <<>>)
    IN  SectionIfPresent("Results - Quantitative", experiments,
                         ResultsContent(experiments), 1)

\* the content of _add_qualitative_analysis_slide
QualitativeText(data) ==
    LET results_analysis == Get(data, "results_analysis", <<>>)
        experiments == Get(data, "what_does_paper_do", <<>>)
        parts == Split(experiments, HdrMainFindings)
        findings == Split(parts[2], Hashes3)[1]
    IN  IF Contains(experiments, HdrMainFindings) /\ Len(parts) > 1
        THEN IF results_analysis # <<>>
             THEN results_analysis \o <<NL, NL>> \o HdrMainFindings \o <<NL>> \o findings
             ELSE HdrMainFindings \o <<NL>> \o findings
        ELSE results_analysis

\* _add_qualitative_analysis_slide
QualitativeAnalysisSlides(data) ==
    LET t == QualitativeText(data)
    IN  SectionIfPresent("Results - Qualitative Analysis", t, t, 1)

\* _add_discussion_slide
DiscussionSlides(data) ==
    LET t == Get(data, "discussion", <<>>)
    IN  SectionIfPresent("Discussion", t, t, 1)

\* _add_conclusion_slide
ConclusionSlides(data) ==
    LET t == Get(data, "conclusion", <<>>)
    IN  SectionIfPresent("Conclusion & Future Work", t, t, 1)

----------------------------------------------------------------------------
(* One generate_powerpoint call, one section method a step.                *)

MaxKeys == 2    \* largest number of keys of analysis_data

FieldNames ==
    {"abstract", "introduction", "literature_review", "motivation", "contribution",
     "how_does_paper_do", "what_does_paper_do", "results_analysis", "discussion",
     "conclusion", "future_work"}

TextEmpty == <<>>
TextBlank == <<" ", NL, " ">>
TextPlain == <<"T", "x">>

\* the texts a field may hold: every field may be empty, whitespace-only or
\* plain; the fields the section methods split get texts with the headings
\* they look for
FieldTexts(f) ==
    {TextEmpty, TextBlank, TextPlain} \cup
    CASE f = "introduction" ->
            {<<"I", "n", NL, "#", "#", "#", " ", "R", "e", "l", "a", "t", "e", "d", " ", "W", "o", "r", "k", NL, "R", "w", NL, "#", "#", "#", " ", "M", "o">>}
      [] f = "how_does_paper_do" ->
            {<<"O", "v", NL, "#", "#", "#", " ", "T", "e", NL, "-", " ", "b">>,
             <<"#", "#", "#", " ", "T", "e", NL, "-", " ", "b">>,
             <<" ", NL, "#", "#", "#", " ", "T", "e">>}
      [] f = "what_does_paper_do" ->
            {<<"S", "e", NL, "#", "#", "#", " ", "K", "e", "y", " ", "R", "e", "s", "u", "l", "t", "s", NL, "R", "e">>,
             <<"#", "#", "#", " ", "K", "e", "y", " ", "Q", "u", "a", "n", "t", "i", "t", "a", "t", "i", "v", "e", " ", "R", "e", "s", "u", "l", "t", "s", NL, "R", "e">>,
             <<NL, "#", "#", "#", " ", "K", "e", "y", " ", "R", "e", "s", "u", "l", "t", "s", NL, "R", "e">>,
             <<"S", "e", NL, "#", "#", "#", " ", "M", "a", "i", "n", " ", "F", "i", "n", "d", "i", "n", "g", "s", NL, "F", "i">>,
             <<"S", "e", NL, "#", "#", "#", " ", "K", "e", "y", " ", "R", "e", "s", "u", "l", "t", "s", ":", NL, "R", "e">>}
      [] f = "conclusion" ->
            {<<"-", " ", "c", ".", ".", ".">>}
      [] OTHER -> {}

\* the analysis_data mappings: at most MaxKeys keys, the others absent
Documents ==
    UNION {{d \in [ks -> UNION {FieldTexts(f) : f \in ks}] :
                \A f \in ks : d[f] \in FieldTexts(f)} :
           ks \in {k \in SUBSET FieldNames : Cardinality(k) <= MaxKeys}}

\* mutant of GenerateOrder: the motivation slide is built before the
\* literature review slide
GenerateOrder_Swapped ==
    <<"cover", "introduction", "motivation", "literature_review", "main_idea",
      "methodology_overview", "technical_details", "experimental_setup",
      "quantitative_results", "qualitative_analysis", "discussion", "conclusion",
      "thank_you", "save">>

\* the order in which generate() calls the section methods
GenerateOrder ==
    <<"cover", "introduction", "literature_review", "motivation", "main_idea",
      "methodology_overview", "technical_details", "experimental_setup",
      "quantitative_results", "qualitative_analysis", "discussion", "conclusion",
      "thank_you", "save">>

\* the step of generate() that follows step
After(step) ==
    LET k == CHOOSE n \in DOMAIN GenerateOrder : GenerateOrder[n] = step
    IN  GenerateOrder[k + 1]

InitDeck ==
    /\ analysis_data \in Documents
    /\ slides = <<>>
    /\ gpc = "validate"
    /\ outcome = "none"
    /\ IdleSlide /\ IdleDoc /\ IdlePdf
    /\ IdleFrame /\ IdleAgain /\ IdleView

\* if not analysis_data: raise ValueError("Analysis data is empty")
GenEmptyData ==
    /\ gpc = "validate" /\ DOMAIN analysis_data = {}
    /\ gpc' = "returned" /\ outcome' = "ValueError"
    /\ UNCHANGED <<analysis_data, slides>>
    /\ UNCHANGED <<slideVars, docVars, pdfVars>>
    /\ UNCHANGED <<frameVars, againVars, viewVars>>

\* if not has_content: raise ValueError("... no content for slides")
GenNoContent ==
    /\ gpc = "validate" /\ DOMAIN analysis_data # {} /\ ~HasContent(analysis_data)
    /\ gpc' = "returned" /\ outcome' = "ValueError"
    /\ UNCHANGED <<analysis_data, slides>>
    /\ UNCHANGED <<slideVars, docVars, pdfVars>>
    /\ UNCHANGED <<frameVars, againVars, viewVars>>

\* the guards pass: PowerPointGenerator(...).generate() starts
GenAccept ==
    /\ gpc = "validate" /\ DOMAIN analysis_data # {} /\ HasContent(analysis_data)
    /\ gpc' = GenerateOrder[1]
    /\ UNCHANGED <<analysis_data, slides, outcome>>
    /\ UNCHANGED <<slideVars, docVars, pdfVars>>
    /\ UNCHANGED <<frameVars, againVars, viewVars>>

\* one call of generate(): the slides it adds are appended
Step(step, added) ==
    /\ gpc = step
    /\ slides' = slides \o added
    /\ gpc' = After(step)
    /\ UNCHANGED <<analysis_data, outcome>>
    /\ UNCHANGED <<slideVars, docVars, pdfVars>>
    /\ UNCHANGED <<frameVars, againVars, viewVars>>

AddCoverSlide == Step("cover", <<Slide(TitleCover, <<>>)>>)
AddIntroductionSlide == Step("introduction", IntroductionSlides(analysis_data))
AddLiteratureReviewSlide == Step("literature_review", LiteratureReviewSlides(analysis_data))
AddMotivationSlide == Step("motivation", MotivationSlides(analysis_data))
AddMainIdeaSlide == Step("main_idea", MainIdeaSlides(analysis_data))
AddMethodologyOverviewSlide ==
    Step("methodology_overview", MethodologyOverviewSlides(analysis_data))
AddTechnicalDetailsSlide == Step("technical_details", TechnicalDetailsSlides(analysis_data))
AddExperimentalSetupSlide ==
    Step("experimental_setup", ExperimentalSetupSlides(analysis_data))
AddQuantitativeResultsSlide ==
    Step("quantitative_results", QuantitativeResultsSlides(analysis_data))
AddQualitativeAnalysisSlide ==
    Step("qualitative_analysis", QualitativeAnalysisSlides(analysis_data))
AddDiscussionSlide == Step("discussion", DiscussionSlides(analysis_data))
AddConclusionSlide == Step("conclusion", ConclusionSlides(analysis_data))
AddThankYouSlide == Step("thank_you", <<Slide(TitleThankYou, <<>>)>>)

\* generator.save_to_bytes() succeeds: the buffer is returned
SaveToBytes ==
    /\ gpc = "save"
    /\ gpc' = "returned" /\ outcome' = "buffer"
    /\ UNCHANGED <<analysis_data, slides>>
    /\ UNCHANGED <<slideVars, docVars, pdfVars>>
    /\ UNCHANGED <<frameVars, againVars, viewVars>>

\* the serialization raises: except Exception re-raises, no buffer
SaveFails ==
    /\ gpc = "save"
    /\ gpc' = "returned" /\ outcome' = "Exception"
    /\ UNCHANGED <<analysis_data, slides>>
    /\ UNCHANGED <<slideVars, docVars, pdfVars>>
    /\ UNCHANGED <<frameVars, againVars, viewVars>>

NextDeck ==
    \/ GenEmptyData \/ GenNoContent \/ GenAccept
    \/ AddCoverSlide \/ AddIntroductionSlide \/ AddLiteratureReviewSlide
    \/ AddMotivationSlide \/ AddMainIdeaSlide \/ AddMethodologyOverviewSlide
    \/ AddTechnicalDetailsSlide \/ AddExperimentalSetupSlide
    \/ AddQuantitativeResultsSlide \/ AddQualitativeAnalysisSlide
    \/ AddDiscussionSlide \/ AddConclusionSlide \/ AddThankYouSlide
    \/ SaveToBytes \/ SaveFails

SpecDeck == InitDeck /\ [][NextDeck]_vars

----------------------------------------------------------------------------
(* Claims about one generate_powerpoint call (SpecDeck).                   *)

\* empty string or absent
EmptyOrAbsent(data, f) == Get(data, f, <<>>) = <<>>

AllContentFieldsEmpty(data) ==
    \A k \in DOMAIN content_fields : EmptyOrAbsent(data, content_fields[k])

\* C1: when every content field is empty or absent (the empty mapping
\* included) generate_powerpoint raises the empty-content error: no slide is
\* ever built and no buffer is returned.
C1_EmptyContentRaises ==
    AllContentFieldsEmpty(analysis_data) =>
        /\ slides = <<>>
        /\ outcome \in {"none", "ValueError"}
        /\ gpc \in {"validate", "returned"}
        /\ gpc = "returned" => outcome = "ValueError"

\* a non-empty mapping without content has been refused
C1_Witness ==
    /\ AllContentFieldsEmpty(analysis_data)
    /\ DOMAIN analysis_data # {}
    /\ gpc = "returned" /\ outcome = "ValueError" /\ slides = <<>>

SectionTitles ==
    <<"Introduction", "Literature Review", "Problem Statement / Motivation",
      "Main Idea & Contributions", "Methodology Overview", "Technical Details",
      "Experimental Setup", "Results - Quantitative",
      "Results - Qualitative Analysis", "Discussion", "Conclusion & Future Work">>

IsSectionSlide(sl) == sl.title \notin {TitleCover, TitleThankYou}

\* C5: a deck never holds a section slide without rendered content: a
\* section whose text is empty or whitespace-only gets no slide.
C5_NoEmptySectionSlide ==
    \A k \in DOMAIN slides :
        IsSectionSlide(slides[k]) => Len(slides[k].frame) > Len(FreshFrame)

\* conclusion holds text, every other field is empty or absent
OnlyConclusionPopulated(data) ==
    /\ "conclusion" \in DOMAIN data
    /\ Strip(data["conclusion"]) # <<>>
    /\ \A f \in FieldNames \ {"conclusion"} : EmptyOrAbsent(data, f)

Titles == [k \in DOMAIN slides |-> slides[k].title]

\* C6: with conclusion the only populated field the deck is exactly cover,
\* conclusion, thank-you, and no other slide exists at any time.
C6_OnlyConclusionGivesThreeSlides ==
    OnlyConclusionPopulated(analysis_data) =>
        /\ \A k \in DOMAIN slides :
              slides[k].title \in {TitleCover, "Conclusion & Future Work", TitleThankYou}
        /\ outcome # "ValueError"
        /\ gpc \in {"save", "returned"} =>
              Titles = <<TitleCover, "Conclusion & Future Work", TitleThankYou>>

C6_Witness ==
    /\ OnlyConclusionPopulated(analysis_data)
    /\ outcome = "buffer"
    /\ Len(slides) = 3
    /\ Len(slides[2].frame) > Len(FreshFrame)

\* position of a title in the plan: cover, the eleven sections, thank-you
PlanTitles == <<TitleCover>> \o SectionTitles \o <<TitleThankYou>>
InPlan(t) == \E n \in DOMAIN PlanTitles : PlanTitles[n] = t
Rank(t) == CHOOSE n \in DOMAIN PlanTitles : PlanTitles[n] = t

\* C7: the slides follow the fixed plan order, each section at most once;
\* a generated deck starts with the cover and ends with the thank-you slide.
C7_PlanOrder ==
    /\ \A k \in DOMAIN slides : InPlan(slides[k].title)
    /\ \A a, b \in DOMAIN slides :
          a < b => Rank(slides[a].title) < Rank(slides[b].title)
    /\ outcome = "buffer" =>
          /\ Len(slides) >= 2
          /\ slides[1].title = TitleCover
          /\ slides[Len(slides)].title = TitleThankYou

\* a generated deck with at least two section slides between cover and thank-you
C7_Witness ==
    /\ outcome = "buffer"
    /\ Len(slides) >= 4
    /\ \E k \in DOMAIN slides : slides[k].title = "Literature Review"
    /\ \E k \in DOMAIN slides : slides[k].title = "Problem Statement / Motivation"

----------------------------------------------------------------------------
(* One export_analysis_pdf request, one add_section call a step.           *)

MaxPopulated == 2    \* most report fields of a stored analysis holding text

\* mutant of ReportSections: the first two add_section calls change places
ReportSections_IntroductionFirst ==
    <<<<"Introduction", "introduction">>,
      <<"Abstract", "abstract">>,
      <<"Motivation", "motivation">>,
      <<"Contribution", "contribution">>,
      <<"Methodology", "how_does_paper_do">>,
      <<"Experiments & Results", "what_does_paper_do">>,
      <<"Limitations & Challenges", "limitations_challenges">>,
      <<"Future Work", "future_work">>,
      <<"Conclusion", "conclusion">>>>

\* the add_section calls in order: section title and model field
ReportSections ==
    <<<<"Abstract", "abstract">>,
      <<"Introduction", "introduction">>,
      <<"Motivation", "motivation">>,
      <<"Contribution", "contribution">>,
      <<"Methodology", "how_does_paper_do">>,
      <<"Experiments & Results", "what_does_paper_do">>,
      <<"Limitations & Challenges", "limitations_challenges">>,
      <<"Future Work", "future_work">>,
      <<"Conclusion", "conclusion">>>>

ReportFields == {ReportSections[k][2] : k \in DOMAIN ReportSections}

\* the texts a stored field may hold
PdfTexts ==
    {<<>>, LinePara, Join(<<LineHeader, LineBullet>>, <<NL>>), DocHash1}

\* the stored analyses: every field is a string, at most MaxPopulated non-empty
Analyses ==
    UNION {{[f \in ReportFields |-> IF f \in ks THEN d[f] ELSE <<>>] :
                d \in [ks -> PdfTexts \ {<<>>}]} :
           ks \in {k \in SUBSET ReportFields : Cardinality(k) <= MaxPopulated}}

\* Paragraph(analysis.title, title_style)
TitleFlowable == Flowable("title", <<"T", "i">>, "title_style", 0)

\* Paragraph(title, heading_style)
HeadingFlowable(title) == Flowable("heading", title, "heading_style", 0)

InitPdf ==
    /\ analysis \in Analyses
    /\ story = <<>>
    /\ ppc = "start"
    /\ response = "none"
    /\ IdleSlide /\ IdleDeck /\ IdleDoc
    /\ IdleFrame /\ IdleAgain /\ IdleView

\* story = [] and the title paragraph with its spacer
PdfStart ==
    /\ ppc = "start"
    /\ story' = <<TitleFlowable, Spacer("0.2inch")>>
    /\ ppc' = ReportSections[1][2]
    /\ UNCHANGED <<analysis, response>>
    /\ UNCHANGED <<slideVars, deckVars, docVars>>
    /\ UNCHANGED <<frameVars, againVars, viewVars>>

\* the pc after the add_section call number k
AfterSection(k) ==
    IF k < Len(ReportSections) THEN ReportSections[k + 1][2] ELSE "build"

\* add_section(title, content) for call number k, parsed being the outcome of
\* parse_markdown_to_flowables(content, ...): when that call never returns the
\* heading is already in the story and the request stays in the loop
AddSectionWith(k, parsed) ==
    LET title == ReportSections[k][1]
        field == ReportSections[k][2]
    IN  /\ ppc = field
        /\ story' = IF analysis[field] = <<>> THEN story
                    ELSE IF parsed.hang THEN story \o <<HeadingFlowable(title)>>
                    ELSE story \o <<HeadingFlowable(title)>> \o parsed.out
                               \o <<Spacer("0.2inch")>>
        /\ ppc' = IF parsed.hang THEN "looping" ELSE AfterSection(k)
        /\ UNCHANGED <<analysis, response>>
        /\ UNCHANGED <<slideVars, deckVars, docVars>>
        /\ UNCHANGED <<frameVars, againVars, viewVars>>

\* the nine add_section calls, in the order of ReportSections
AddSection ==
    \E k \in DOMAIN ReportSections :
        AddSectionWith(k, ParseMarkdown(analysis[ReportSections[k][2]]))

\* doc.build(story) succeeds: return response (the PDF attachment)
BuildPdf ==
    /\ ppc = "build"
    /\ response' = "pdf"
    /\ ppc' = "returned"
    /\ UNCHANGED <<analysis, story>>
    /\ UNCHANGED <<slideVars, deckVars, docVars>>
    /\ UNCHANGED <<frameVars, againVars, viewVars>>

\* doc.build(story) raises: except Exception returns the JSON error, status 500
BuildFails ==
    /\ ppc = "build"
    /\ response' = "json500"
    /\ ppc' = "returned"
    /\ UNCHANGED <<analysis, story>>
    /\ UNCHANGED <<slideVars, deckVars, docVars>>
    /\ UNCHANGED <<frameVars, againVars, viewVars>>

NextPdf == PdfStart \/ AddSection \/ BuildPdf \/ BuildFails

SpecPdf == InitPdf /\ [][NextPdf]_vars

----------------------------------------------------------------------------
(* Claims about one export_analysis_pdf request (SpecPdf).                 *)

AllReportFieldsEmpty == \A f \in ReportFields : analysis[f] = <<>>

\* C2: for a stored analysis whose nine report fields are all empty,
\* export_analysis_pdf produces no PDF document.
C2_EmptyAnalysisGivesNoPdf ==
    (ppc # "idle" /\ AllReportFieldsEmpty) => response # "pdf"

----------------------------------------------------------------------------
(* Further claims about one _add_formatted_text call (SpecSlide).          *)

\* the loop has been left by the break of the bullet-count limit
LeftByLimit == fpc = "broke"

\* the length test of the line just processed has cut its text
LastWasCut ==
    \/ LastIsItem /\ Len(LastItemText) > ItemLimit
    \/ LastIsParagraph /\ Len(LastParagraphText) > ParagraphLimit

\* C11: every cut is marked: when the bullet-count limit stops the call the
\* rendered text holds the ellipsis, and a text cut for its length is
\* emitted with the ellipsis at its end.
C11_EveryCutIsMarked ==
    /\ LeftByLimit => Contains(FrameText(text_frame), Ellipsis)
    /\ (JustProcessed /\ LastWasCut) => EndsWith(LastEmitted, Ellipsis)

----------------------------------------------------------------------------
(* One _add_content_to_frame call: the first render and the while loop     *)
(* that adds continuation slides, one loop iteration a step.               *)

MaxSlides == 3    \* largest max_slides argument

\* text_frame.text.endswith('...')
Overflows(frame) == EndsWith(FrameText(frame), Ellipsis)

\* mutant of MayContinue: off by one, one more continuation slide is allowed
MayContinue_OneMore(cur, max) == cur <= max - 1

\* current_slide < max_slides - 1
MayContinue(cur, max) == cur < max - 1

\* self._add_formatted_text(text_frame, content) on the empty text box of a
\* new slide, for every content of the call (computed once)
Rendered == [c \in SlideContents |-> AddFormattedText(FreshFrame, c)]

InitFrame ==
    /\ content \in SlideContents
    /\ max_slides \in 1..MaxSlides
    /\ text_frame = FreshFrame
    /\ slides = <<>>
    /\ current_slide = 0
    /\ cpc = "render"
    /\ line_no = 0 /\ current_paragraph = 0 /\ bullet_count = 0 /\ fpc = "idle"
    /\ analysis_data = <<>> /\ gpc = "idle" /\ outcome = "none"
    /\ IdleDoc /\ IdlePdf /\ IdleAgain /\ IdleView

\* self._add_formatted_text(text_frame, content); current_slide = 0
CfRender ==
    /\ cpc = "render"
    /\ text_frame' = Rendered[content]
    /\ current_slide' = 0
    /\ cpc' = "loop"
    /\ UNCHANGED <<content, slides, max_slides>>
    /\ UNCHANGED <<line_no, current_paragraph, bullet_count, fpc>>
    /\ UNCHANGED <<analysis_data, gpc, outcome>>
    /\ UNCHANGED <<docVars, pdfVars, againVars, viewVars>>

\* one pass of the while loop: a "(Continued)" slide with a new text box,
\* into which the same content is rendered
CfContinue ==
    /\ cpc = "loop"
    /\ Overflows(text_frame) /\ MayContinue(current_slide, max_slides)
    /\ LET new_frame == Rendered[content]
       IN  /\ slides' = Append(slides, Slide(TitleContinued, new_frame))
           /\ text_frame' = new_frame
    /\ current_slide' = current_slide + 1
    /\ UNCHANGED <<content, max_slides, cpc>>
    /\ UNCHANGED <<line_no, current_paragraph, bullet_count, fpc>>
    /\ UNCHANGED <<analysis_data, gpc, outcome>>
    /\ UNCHANGED <<docVars, pdfVars, againVars, viewVars>>

\* the while condition is false: the call returns
CfReturn ==
    /\ cpc = "loop"
    /\ ~(Overflows(text_frame) /\ MayContinue(current_slide, max_slides))
    /\ cpc' = "returned"
    /\ UNCHANGED <<content, text_frame, slides, max_slides, current_slide>>
    /\ UNCHANGED <<line_no, current_paragraph, bullet_count, fpc>>
    /\ UNCHANGED <<analysis_data, gpc, outcome>>
    /\ UNCHANGED <<docVars, pdfVars, againVars, viewVars>>

NextFrame == CfRender \/ CfContinue \/ CfReturn

SpecFrame == InitFrame /\ [][NextFrame]_vars

\* the call is never suspended: it runs as long as a step is possible
SpecFrameFair == SpecFrame /\ WF_vars(NextFrame)

----------------------------------------------------------------------------
(* Claims about one _add_content_to_frame call (SpecFrameFair).            *)

\* the frame of the section slide after the first render
FirstRender == Rendered[content]

ContinuationCountBounded ==
    /\ Len(slides) = current_slide
    /\ Len(slides) <= max_slides - 1
    /\ (cpc # "render" /\ ~Overflows(FirstRender)) => slides = <<>>
    /\ (cpc = "returned" /\ Overflows(FirstRender)) => Len(slides) = max_slides - 1

ContinuationsRenderWholeText ==
    \A k \in DOMAIN slides :
        /\ slides[k].title = TitleContinued
        /\ slides[k].frame = FirstRender

\* C12: no continuation slide without overflow, at most max_slides - 1 with
\* it (exactly that many once the call has returned); every continuation
\* slide shows what the first slide shows, the whole content rendered again;
\* and the call returns.
C12_ContinuationLoop ==
    /\ [](ContinuationCountBounded /\ ContinuationsRenderWholeText)
    /\ <>(cpc = "returned")

\* the loop has run to its bound: two continuation slides for max_slides = 3
C12_Witness ==
    /\ cpc = "returned" /\ max_slides = 3
    /\ Overflows(FirstRender)
    /\ Len(slides) = 2

-----------------------------------------------------------------------------
(* The same renderer called a second time on the same text (SpecAgain).    *)
(* The first call runs as in SpecSlide or SpecDoc; when it has returned,   *)
(* its output is kept in first_output and the renderer is entered again    *)
(* with a new text frame (slide) or a new flowables list (document).       *)

BulletCountAtEntry_Kept(before) == before

\* bullet_count = 0 at the entry of _add_formatted_text, whatever an earlier
\* call left in its own local
BulletCountAtEntry(before) == 0

InitAgain == InitSlide \/ InitDoc

\* _add_formatted_text(new_text_frame, content) after the first call returned
SlideAgain ==
    /\ fpc = "returned" /\ call_no = 0
    /\ first_output' = text_frame
    /\ call_no' = 1
    /\ text_frame' = FreshFrame
    /\ line_no' = 0
    /\ current_paragraph' = 0
    /\ bullet_count' = BulletCountAtEntry(bullet_count)
    /\ fpc' = "entry"
    /\ UNCHANGED content
    /\ UNCHANGED <<deckVars, docVars, pdfVars, frameVars, viewVars>>

\* parse_markdown_to_flowables(text, ...) after the first call returned
DocAgain ==
    /\ dpc = "returned" /\ call_no = 0
    /\ first_output' = flowables
    /\ call_no' = 1
    /\ flowables' = <<>>
    /\ i' = 0
    /\ iterations' = 0
    /\ dpc' = "entry"
    /\ UNCHANGED text
    /\ UNCHANGED <<slideVars, deckVars, pdfVars, frameVars, viewVars>>

NextAgain == NextSlide \/ NextDoc \/ SlideAgain \/ DocAgain

SpecAgain == InitAgain /\ [][NextAgain]_vars

\* C13: rendering the same field text twice through the same renderer gives
\* identical output: when the second call has returned, its text frame
\* (slide renderer) or its flowables (document renderer) equal those of the
\* first call, so no counter, paragraph pointer or line index is carried over.
C13_SecondRenderEqualsFirst ==
    /\ (call_no = 1 /\ fpc = "returned") => text_frame = first_output
    /\ (call_no = 1 /\ dpc = "returned") => flowables = first_output

\* C13 witness: a second slide render has returned after the first one was
\* stopped by the bullet limit (its counter had reached the maximum).
C13_Witness ==
    /\ call_no = 1 /\ fpc = "returned"
    /\ bullet_count = max_bullets_per_slide
    /\ line_no < Len(Lines)
    /\ Len(first_output) >= max_bullets_per_slide
-----------------------------------------------------------------------------
(* Both renderers on the fixture texts of the specification (SpecFixture), *)
(* next to the texts of SlideContents and DocTexts.                        *)

MaxNumbered == 3    \* longest numbered list of the round-trip fixture

\* heading, two bullets, a blank line and a paragraph
ResultsFixture ==
    Join(<<<<"#", "#", "#", " ", "R", "e", "s", "u", "l", "t", "s">>,
           <<"-", " ", "A", "c", "c", "u", "r", "a", "c", "y", ":", " ", "9", "2", "%">>,
           <<"-", " ", "S", "p", "e", "e", "d", ":", " ", "1", "0", "m", "s">>,
           <<>>,
           <<"S", "u", "m", "m", "a", "r", "y", " ", "t", "e", "x", "t", " ", "h", "e", "r", "e", ".">>>>, <<NL>>)

Digits == <<"1", "2", "3", "4", "5", "6", "7", "8", "9">>

\* one heading, a two-item bullet list with one nested item, a numbered list
\* of n items and one paragraph; gap puts a blank line between the groups
RoundTrip(n, marker, gap) ==
    LET sep == IF gap THEN <<LineBlank>> ELSE <<>>
    IN  Join(<<LineHeader>> \o sep
             \o <<<<marker, " ", "a">>, <<" ", " ", marker, " ", "n">>,
                  <<marker, " ", "b">>>> \o sep
             \o [k \in 1..n |-> <<Digits[k], ".", " ", "x">>] \o sep
             \o <<<<"P", "a", "r", "a", "g", "r", "a", "p", "h", ".">>>>, <<NL>>)

RoundTripFixtures ==
    {RoundTrip(n, marker, gap) :
        n \in 1..MaxNumbered, marker \in {"-", "*"}, gap \in BOOLEAN}

BoldWord == <<"*", "*", "b", "o", "l", "d", "*", "*">>

\* one block of every kind whose text holds the bold marker, alone or
\* followed by plain text
BoldFixtures ==
    UNION {{ <<"#", "#", "#", " ">> \o BoldWord \o tail,
             <<"-", " ">> \o BoldWord \o tail,
             Join(<<LineBullet, <<" ", " ", "-", " ">> \o BoldWord \o tail>>, <<NL>>),
             <<"1", ".", " ">> \o BoldWord \o tail,
             BoldWord \o tail,
             <<"T", "o", " ">> \o BoldWord \o tail } : tail \in {<<>>, <<" ", "x">>}}

\* texts a bold marker may enclose: italic, code and link markers
InnerTexts ==
    {<<"a", " ", "*", "i", "*", " ", "c">>,
     <<"a", " ", Backtick, "c", Backtick, " ", "d">>,
     <<"a", " ", "_", "i", "_", " ", "c">>,
     <<"[", "t", "]", "(", "u", ")">>}

\* the bold marker around x
Bold(x) == <<"*", "*">> \o x \o <<"*", "*">>

\* a paragraph and a bullet whose bold text holds further markers
NestedMarkerTexts ==
    UNION {{ <<"T", "o", " ">> \o Bold(x), <<"-", " ">> \o Bold(x) } : x \in InnerTexts}

FixtureTexts ==
    {ResultsFixture} \cup RoundTripFixtures \cup BoldFixtures \cup NestedMarkerTexts

InitFixture ==
    \/ /\ content \in SlideContents \cup FixtureTexts
       /\ line_no = 0
       /\ text_frame = FreshFrame
       /\ current_paragraph = 0
       /\ bullet_count = 0
       /\ fpc = "entry"
       /\ IdleDeck /\ IdleDoc /\ IdlePdf
       /\ IdleFrame /\ IdleAgain /\ IdleView
    \/ /\ text \in DocTexts \cup FixtureTexts
       /\ i = 0
       /\ flowables = <<>>
       /\ iterations = 0
       /\ dpc = "entry"
       /\ IdleSlide /\ IdleDeck /\ IdlePdf
       /\ IdleFrame /\ IdleAgain /\ IdleView

NextFixture == NextSlide \/ NextDoc

SpecFixture == InitFixture /\ [][NextFixture]_vars
\* the blocks of a flowables list: everything but the vertical spacing
NonSpacer(fs) == SelectSeq(fs, LAMBDA f : f.kind # "spacer")

\* kind and text of the blocks, in order
KindsAndTexts(fs) == [k \in 1..Len(NonSpacer(fs)) |-> <<NonSpacer(fs)[k].kind, NonSpacer(fs)[k].text>>]

\* one step of the document renderer keeps what was emitted, appends the new
\* blocks behind it, never moves back in the lines, and emits no more blocks
\* than it consumed lines
DocOrderStep ==
    /\ i' >= i
    /\ Len(flowables') >= Len(flowables)
    /\ SubSeq(flowables', 1, Len(flowables)) = flowables
    /\ Len(NonSpacer(flowables')) - Len(NonSpacer(flowables)) <= i' - i

ResultsFixtureRendered ==
    (text = ResultsFixture /\ dpc = "returned") =>
        KindsAndTexts(flowables) =
            << <<"header", TagB \o <<"R", "e", "s", "u", "l", "t", "s">> \o TagBEnd>>,
               <<"item", BulletDot \o <<"A", "c", "c", "u", "r", "a", "c", "y", ":", " ", "9", "2", "%">>>>,
               <<"item", BulletDot \o <<"S", "p", "e", "e", "d", ":", " ", "1", "0", "m", "s">>>>,
               <<"para", <<"S", "u", "m", "m", "a", "r", "y", " ", "t", "e", "x", "t", " ", "h", "e", "r", "e", ".">>>> >>

\* C14: the blocks emitted by the document renderer appear in source line
\* order: every pass of the loop appends its blocks behind the earlier ones,
\* moves forward in the lines and emits at most one block per line it consumes,
\* so no line contributes to two blocks; and the fixture '### Results',
\* '- Accuracy: 92%', '- Speed: 10ms', blank, 'Summary text here.' yields
\* heading, bullet, bullet, paragraph in that order.
C14_BlocksInSourceOrder == []ResultsFixtureRendered /\ [][DocOrderStep]_vars

\* C14 witness: the fixture has been rendered to its four blocks.
C14_Witness ==
    /\ text = ResultsFixture /\ dpc = "returned"
    /\ Len(NonSpacer(flowables)) = 4
    /\ Len(flowables) = 8
\* p.level = 0: the slide renderer tests line.strip() only and gives every
\* paragraph it adds the outline level 0
Level(par) == 0

\* kind and depth of the blocks of a text frame (the initial empty paragraph
\* and the blank paragraphs are no blocks)
SlideBlocks(frame) ==
    LET blocks == SelectSeq(frame, LAMBDA par : par.kind \notin {"initial", "blank"})
    IN  [k \in 1..Len(blocks) |-> <<blocks[k].kind, Level(blocks[k])>>]

\* kind and depth of the blocks of a flowables list: a list item is a bullet
\* when its text starts with the bullet character, a nested item has depth 1
DocBlocks(fs) ==
    LET blocks == NonSpacer(fs)
        ListKind(f) == IF StartsWith(f.text, BulletDot) THEN "bullet" ELSE "numbered"
    IN  [k \in 1..Len(blocks) |->
            IF blocks[k].kind = "item" THEN <<ListKind(blocks[k]), 0>>
            ELSE IF blocks[k].kind = "nested" THEN <<ListKind(blocks[k]), 1>>
            ELSE <<blocks[k].kind, 0>>]

ExpectedBlocks(n) ==
    << <<"header", 0>>, <<"bullet", 0>>, <<"bullet", 1>>, <<"bullet", 0>> >>
        \o [k \in 1..n |-> <<"numbered", 0>>] \o << <<"para", 0>> >>

DocReproducesFixture ==
    \A n \in 1..MaxNumbered, marker \in {"-", "*"}, gap \in BOOLEAN :
        (text = RoundTrip(n, marker, gap) /\ dpc = "returned")
            => DocBlocks(flowables) = ExpectedBlocks(n)

SlideReproducesFixture ==
    \A n \in 1..MaxNumbered, marker \in {"-", "*"}, gap \in BOOLEAN :
        (content = RoundTrip(n, marker, gap) /\ fpc = "returned")
            => SlideBlocks(text_frame) = ExpectedBlocks(n)

\* C15: for the fixture with one heading, a two-item bullet list with one
\* nested item, a numbered list of N items and one paragraph, each renderer
\* reproduces 1 heading block, 2 depth-0 and 1 depth-1 bullet blocks, N
\* numbered blocks and 1 paragraph block, in source order.
C15_BothRenderersReproduceFixture == DocReproducesFixture /\ SlideReproducesFixture
-----------------------------------------------------------------------------
(* Further claims about one export_analysis_pdf request (SpecPdf).         *)

\* the section order the report is said to have
ClaimedTitles ==
    <<"Abstract", "Introduction", "Motivation", "Contribution", "Methodology",
      "Experiments & Results", "Limitations & Challenges", "Future Work",
      "Conclusion">>

\* the model field shown under a section title
FieldOf(title) ==
    ReportSections[CHOOSE k \in DOMAIN ReportSections : ReportSections[k][1] = title][2]

\* the claimed titles whose field is not empty, in the claimed order
NonEmptyTitles == SelectSeq(ClaimedTitles, LAMBDA t : analysis[FieldOf(t)] # <<>>)

\* the titles of the section headings of a story, in order
Headings(st) ==
    LET hs == SelectSeq(st, LAMBDA f : f.kind = "heading")
    IN  [k \in 1..Len(hs) |-> hs[k].text]

\* the story the claim describes: title part, then for every non-empty field
\* in the claimed order its heading, its rendered blocks and a spacer
RECURSIVE ExpectedSections(_)
ExpectedSections(k) ==
    IF k > Len(NonEmptyTitles) THEN <<>>
    ELSE <<HeadingFlowable(NonEmptyTitles[k])>>
         \o ParseMarkdown(analysis[FieldOf(NonEmptyTitles[k])]).out
         \o <<Spacer("0.2inch")>> \o ExpectedSections(k + 1)

\* C16: export_analysis_pdf emits its sections in the fixed order Abstract,
\* Introduction, Motivation, Contribution, Methodology, Experiments & Results,
\* Limitations & Challenges, Future Work, Conclusion: at every point the
\* headings in the story are the first of the non-empty fields' titles in
\* that order, and the story handed to doc.build holds a heading exactly for
\* the non-empty fields, each followed by the field's rendered blocks and a
\* spacer, and nothing for an empty field.
C16_SectionsInFixedOrder ==
    /\ ppc # "idle" =>
          /\ Len(Headings(story)) <= Len(NonEmptyTitles)
          /\ Headings(story) = SubSeq(NonEmptyTitles, 1, Len(Headings(story)))
    /\ ppc \in {"build", "returned"} =>
          /\ Headings(story) = NonEmptyTitles
          /\ story = <<TitleFlowable, Spacer("0.2inch")>> \o ExpectedSections(1)

\* C16 witness: a report with an empty abstract and two non-empty fields has
\* been built with exactly their two headings.
C16_Witness ==
    /\ ppc = "returned" /\ response = "pdf"
    /\ analysis["abstract"] = <<>>
    /\ analysis["introduction"] # <<>> /\ analysis["conclusion"] # <<>>
    /\ Headings(story) = <<"Introduction", "Conclusion">>
-----------------------------------------------------------------------------
(* Claims about the inline markers in both renderers (SpecFixture).        *)

\* the texts of all flowables, joined by newlines
DocText(fs) == Join([k \in 1..Len(fs) |-> fs[k].text], <<NL>>)

\* an output shows the bold text and none of the asterisks of its marker
ShowsBoldCleanly(out) ==
    /\ Contains(out, <<"b", "o", "l", "d">>)
    /\ ~Contains(out, <<"*">>)

DocRendersBold ==
    (Contains(text, BoldWord) /\ dpc = "returned") => ShowsBoldCleanly(DocText(flowables))

SlideRendersBold ==
    (Contains(content, BoldWord) /\ fpc = "returned")
        => ShowsBoldCleanly(FrameText(text_frame))

\* C17: for every block text containing the bold marker around the word bold,
\* in every block kind and in both renderers, the rendered output contains
\* the word and no stray asterisk left over from the marker.
C17_BoldWithoutStrayAsterisk == DocRendersBold /\ SlideRendersBold
-----------------------------------------------------------------------------
(* One request to a view that returns a generated file (SpecView):         *)
(* export_analysis_pdf, generate_ppt_from_history, generate_ppt_from_upload *)
(* for an uploaded file that passed the checks of the view.                 *)

\* HttpResponse(ppt_buffer.getvalue(), content_type=...) with its attachment header
FileResponse == <<"file", 200, "", "">>

\* JsonResponse({'success': False, 'error': ...}, status=...): the fixed part
\* of the error and the text of the exception put into it
JsonError(status, error, str_e) == <<"json", status, error, str_e>>

\* str(e) of what generate_powerpoint raised
ExceptionText(data, raised) ==
    IF raised = "ValueError"
    THEN IF DOMAIN data = {} THEN "Analysis data is empty"
         ELSE "Analysis data contains no content for slides"
    ELSE "PowerPoint generation failed: ..."

\* the logged-in users
Users == {"ann", "bob"}

\* request.user of the request
RequestUser == "ann"

\* the id the database gives the next row of a model
NextId(model, recs) ==
    LET ids == {r[2] : r \in {q \in recs : q[1] = model}}
    IN  IF ids = {} THEN 1 ELSE 1 + CHOOSE m \in ids : \A n \in ids : n <= m

\* Model.objects.create(user=..., pdf_file=...): the new row and its stored file
Created(model, recs, user) ==
    <<model, NextId(model, recs), user, <<model, NextId(model, recs)>>>>

InitView ==
    /\ view \in {"pdf", "history", "upload"}
    /\ http_response = NoResponse
    /\ save_to_db \in IF view = "upload" THEN BOOLEAN ELSE {FALSE}
    /\ records = {}
    /\ IdleAnalyze /\ IdleOwner
    /\ analysis \in IF view = "upload" THEN {<<>>} ELSE Analyses
    /\ story = <<>>
    /\ ppc = IF view = "pdf" THEN "start" ELSE "idle"
    /\ response = "none"
    /\ IdleDeck
    /\ IdleSlide /\ IdleDoc /\ IdleFrame /\ IdleAgain

\* generate_ppt_from_history: the dict of the nine model fields is built and
\* generate_powerpoint called
HistoryCallsGenerate ==
    /\ view = "history" /\ gpc = "idle"
    /\ analysis_data' = [f \in ReportFields |-> analysis[f]]
    /\ gpc' = "validate"
    /\ UNCHANGED <<slides, outcome>>
    /\ UNCHANGED <<slideVars, docVars, pdfVars, frameVars, againVars, viewVars>>

\* generate_ppt_from_upload: analyze_paper_for_ppt returns some mapping, the
\* PPTGeneration row is created if save_to_db, and then generate_powerpoint
\* is called with the mapping
UploadCallsGenerate ==
    /\ view = "upload" /\ gpc = "idle"
    /\ analysis_data' \in Documents
    /\ records' = IF save_to_db
                  THEN records \cup {Created("PPTGeneration", records, RequestUser)}
                  ELSE records
    /\ gpc' = "validate"
    /\ UNCHANGED <<slides, outcome>>
    /\ UNCHANGED <<view, http_response, save_to_db, analyzeVars, ownerVars>>
    /\ UNCHANGED <<slideVars, docVars, pdfVars, frameVars, againVars>>

\* generate_ppt_from_history: the file, or the except Exception branch
HistoryResponds ==
    /\ view = "history" /\ gpc = "returned" /\ http_response = NoResponse
    /\ http_response' =
          IF outcome = "buffer" THEN FileResponse
          ELSE JsonError(500, "Failed to generate PowerPoint. Please try again.", "")
    /\ UNCHANGED <<view, save_to_db, records, analyzeVars, ownerVars>>
    /\ UNCHANGED <<slideVars, deckVars, docVars, pdfVars, frameVars, againVars>>

\* generate_ppt_from_upload: the file, the except ValueError branch or the
\* except Exception branch
UploadResponds ==
    /\ view = "upload" /\ gpc = "returned" /\ http_response = NoResponse
    /\ http_response' =
          IF outcome = "buffer" THEN FileResponse
          ELSE IF outcome = "ValueError"
          THEN JsonError(400, "", ExceptionText(analysis_data, outcome))
          ELSE JsonError(500, "Failed to generate presentation: ",
                         ExceptionText(analysis_data, outcome))
    /\ UNCHANGED <<view, save_to_db, records, analyzeVars, ownerVars>>
    /\ UNCHANGED <<slideVars, deckVars, docVars, pdfVars, frameVars, againVars>>

NextView ==
    \/ NextPdf \/ NextDeck
    \/ HistoryCallsGenerate \/ UploadCallsGenerate
    \/ HistoryResponds \/ UploadResponds

SpecView == InitView /\ [][NextView]_vars

GenerationFailed == outcome \in {"ValueError", "Exception"}

\* an error response whose message is one of the fixed "failed, please try
\* again" sentences and holds no text of the exception
GenericRetryError(r) ==
    /\ r[1] = "json"
    /\ r[3] \in {"Failed to generate PowerPoint. Please try again.",
                 "Failed to generate PDF. Please try again."}
    /\ r[4] = ""

\* C18: whenever slide-deck or PDF generation fails, the calling view answers
\* with an error response carrying a generic "generation failed, please
\* retry" message and never returns a file.
C18_FailureGivesGenericError ==
    /\ (view \in {"history", "upload"} /\ GenerationFailed /\ http_response # NoResponse)
          => GenericRetryError(http_response)
    /\ (view = "pdf" /\ ppc = "returned" /\ response # "pdf") => response = "json500"

\* C26: in generate_ppt_from_upload with save_to_db set, a request that ends
\* in an error response leaves no new PPTGeneration row behind.
C26_ErrorLeavesNoRecord ==
    (view = "upload" /\ save_to_db /\ http_response # NoResponse
        /\ http_response # FileResponse)
        => records = {}
-----------------------------------------------------------------------------
(* The overflow test of _add_content_to_frame against what one render      *)
(* lost (SpecSlide).                                                       *)

\* the for loop has been left, by exhaustion or by the break
LoopLeft == fpc = "broke" \/ (fpc = "loop" /\ line_no = Len(Lines))

\* the length test of the branch that handles the line cuts its text
LineIsCut(line) ==
    LET stripped == Strip(line)
    IN  IF stripped = <<>> \/ StartsWith(stripped, <<"#", "#", "#">>) THEN FALSE
        ELSE IF IsBullet(stripped) THEN Len(Strip(From(stripped, 2))) > ItemLimit
        ELSE IF NumberedMatch(stripped) THEN Len(NumberedGroup2(stripped)) > ItemLimit
        ELSE Len(ParseInlineFormatting(stripped)) > ParagraphLimit

\* the render truncated a text or dropped lines
ContentLost == LeftByLimit \/ \E k \in 1..line_no : LineIsCut(Lines[k])

\* C19: the overflow predicate that _add_content_to_frame evaluates after a
\* render (the rendered text ends in '...') is true exactly when that render
\* truncated or dropped part of the content.
C19_OverflowIffContentLost == LoopLeft => (Overflows(text_frame) <=> ContentLost)
-----------------------------------------------------------------------------
(* The nested run of the list branch of parse_markdown_to_flowables        *)
(* (SpecDoc).                                                              *)

\* the next pass of the while loop starts at a list line
AtListLine ==
    /\ dpc = "loop" /\ i < Len(DocLines)
    /\ IsListLine(Strip(DocLines[i + 1]))

\* a line that continues the nested run of an item at indentation b
ContinuesRun(line, b) ==
    /\ Strip(line) # <<>>
    /\ Indent(line) > b
    /\ IsListLine(Strip(line))

\* the number of lines behind the list line at index i that continue its run
RunLength ==
    LET b == Indent(DocLines[i + 1])
    IN  CHOOSE n \in 0..(Len(DocLines) - i - 1) :
            /\ \A j \in 1..n : ContinuesRun(DocLines[i + 1 + j], b)
            /\ i + 1 + n < Len(DocLines) => ~ContinuesRun(DocLines[i + 2 + n], b)

\* a pass that starts at a list line emits that line as an item, every line
\* of its run as a nested item, in order, and a spacer, and leaves the index
\* at the line that ended the run
ListRunStep ==
    LET emitted == SubSeq(flowables', Len(flowables) + 1, Len(flowables'))
    IN  /\ i' = i + 1 + RunLength
        /\ Len(emitted) = RunLength + 2
        /\ emitted[1].kind = "item"
        /\ emitted[1].text = ListItem(DocLines[i + 1], "item", "list_item_style", 0).text
        /\ \A j \in 1..RunLength :
              /\ emitted[1 + j].kind = "nested"
              /\ emitted[1 + j].text
                    = ListItem(DocLines[i + 1 + j], "nested", "Nested", 0).text
        /\ emitted[RunLength + 2].kind = "spacer"

\* when the call has returned from a text without code fences, there are as
\* many items as list lines
EveryListLineOneItem ==
    (dpc = "returned" /\ \A k \in 1..Len(DocLines) : ~IsFence(Strip(DocLines[k])))
        => Len(SelectSeq(flowables, LAMBDA f : f.kind \in {"item", "nested"}))
              = Cardinality({k \in 1..Len(DocLines) : IsListLine(Strip(DocLines[k]))})

\* C20: after a list item at indentation b every immediately following
\* non-blank list line indented more than b is emitted as a nested item of
\* the same group; the first following line that is blank, not more indented
\* or not a list line ends the run and is left to the outer loop, so every
\* list line yields exactly one item and none is skipped or duplicated.
C20_NestedRun ==
    /\ [][(AtListLine /\ iterations' = iterations + 1) => ListRunStep]_vars
    /\ []EveryListLineOneItem

\* C20 witness: item, nested item, then an item at the original indentation
\* that ended the run and became the next top-level item.
C20_Witness ==
    /\ dpc = "returned"
    /\ DocLines = <<LineBullet, DocNestedBullet, LineBullet>>
    /\ Len(flowables) = 5
    /\ flowables[2].kind = "nested" /\ flowables[4].kind = "item"

-----------------------------------------------------------------------------
(* The code block branch of parse_markdown_to_flowables (SpecDoc).         *)

\* the next pass of the while loop starts at a fence line
AtFenceLine ==
    /\ dpc = "loop" /\ i < Len(DocLines)
    /\ IsFence(Strip(DocLines[i + 1]))

\* the fence lines behind the opening fence at index i (1-based positions)
ClosingFences == {j \in (i + 2)..Len(DocLines) : IsFence(Strip(DocLines[j]))}

\* the lines of the block: all remaining lines without a closing fence, the
\* lines strictly between the fences with one
BlockLines ==
    IF ClosingFences = {} THEN SubSeq(DocLines, i + 2, Len(DocLines))
    ELSE SubSeq(DocLines, i + 2,
                (CHOOSE j \in ClosingFences : \A h \in ClosingFences : j <= h) - 1)

\* a pass that starts at a fence line emits one code block made of the block
\* lines; without a closing fence the index ends behind the last line, with
\* one it ends at the line behind the closing fence
CodeBlockStep ==
    /\ flowables' = Append(flowables,
                           Flowable("code",
                                    TagCode \o Join(BlockLines, TagBr) \o TagCodeEnd,
                                    "code_style", 0))
    /\ IF ClosingFences = {} THEN i' > Len(DocLines) - 1
       ELSE /\ i' = i + Len(BlockLines) + 2
            /\ IsFence(Strip(DocLines[i']))

\* a call on a text with a single fence line, at position k, has returned:
\* its last flowable is the code block of all lines behind position k
UnterminatedBlockIsLast ==
    \A k \in 1..Len(DocLines) :
        (/\ dpc = "returned"
         /\ \A j \in 1..Len(DocLines) : IsFence(Strip(DocLines[j])) <=> j = k)
        => /\ flowables # <<>>
           /\ flowables[Len(flowables)]
                 = Flowable("code",
                            TagCode \o Join(SubSeq(DocLines, k + 1, Len(DocLines)), TagBr)
                                    \o TagCodeEnd,
                            "code_style", 0)

\* C21: a fence-opening line with no closing fence makes all remaining lines
\* one emitted code block and parsing ends without error; with a closing
\* fence exactly the lines strictly between the fences form the block and
\* parsing resumes on the line after the closing fence.
C21_CodeBlockBranch ==
    /\ [][(AtFenceLine /\ iterations' = iterations + 1) => CodeBlockStep]_vars
    /\ []UnterminatedBlockIsLast

\* C21 witness: an opening fence followed by two lines and no closing fence
\* has been parsed to one code block of those two lines.
C21_Witness ==
    /\ dpc = "returned"
    /\ DocLines = <<DocFence, LinePara, LineBullet>>
    /\ Len(flowables) = 1
    /\ flowables[1].text = TagCode \o LinePara \o TagBr \o LineBullet \o TagCodeEnd

-----------------------------------------------------------------------------
(* Markers inside a bold text, in both renderers (SpecFixture).            *)

\* C22: inline formatting does not nest: once the bold marker around X has
\* been recognised, X is not scanned again for italic, code or link markers,
\* so X reaches the output as it was written, in the document renderer
\* (inside the bold tags) and in the slide renderer.
C22_BoldContentNotRescanned ==
    \A x \in InnerTexts :
        /\ (Contains(text, Bold(x)) /\ dpc = "returned")
              => Contains(DocText(flowables), TagB \o x \o TagBEnd)
        /\ (Contains(content, Bold(x)) /\ fpc = "returned")
              => Contains(FrameText(text_frame), x)

-----------------------------------------------------------------------------
(* The two-way splits of the methodology and experiments fields (SpecDeck). *)

Methodology == Get(analysis_data, "how_does_paper_do", <<>>)

\* the slide with this title shows the rendering of text c
SlideShows(title, c) ==
    \E k \in DOMAIN slides :
        /\ slides[k].title = title
        /\ slides[k].frame = AddFormattedText(FreshFrame, c)

TechnicalDetailsAdded == \E k \in DOMAIN slides : slides[k].title = "Technical Details"

\* C23: for every methodology text, the Methodology Overview section is the
\* text before the first '###' and the Technical Details section everything
\* from that boundary on, so the two sections concatenated reproduce the
\* methodology text with no character lost and none duplicated.
C23_SplitReproducesMethodology ==
    TechnicalDetailsAdded =>
        /\ SlideShows("Methodology Overview", Overview(Methodology))
        /\ SlideShows("Technical Details", TechnicalContent(Methodology))
        /\ Overview(Methodology) \o TechnicalContent(Methodology) = Methodology

Experiments == Get(analysis_data, "what_does_paper_do", <<>>)

ExperimentLines == Split(Experiments, <<NL>>)

\* the positions of the lines that equal one of the fixed heading strings
ExactHeadingLines ==
    {k \in DOMAIN ExperimentLines :
        ExperimentLines[k] \in {HdrKeyResults, HdrKeyQuantResults, HdrMainFindings}}

QuantitativeResultsAdded ==
    \E k \in DOMAIN slides : slides[k].title = "Results - Quantitative"

\* the split as described: at the first line that equals a heading string,
\* and no split without such a line
SplitAtExactHeading ==
    IF ExactHeadingLines = {}
    THEN SetupContent(Experiments) = Experiments /\ ResultsContent(Experiments) = Experiments
    ELSE LET k == CHOOSE a \in ExactHeadingLines : \A b \in ExactHeadingLines : a <= b
         IN  /\ SetupContent(Experiments) = Join(SubSeq(ExperimentLines, 1, k - 1), <<NL>>)
             /\ ResultsContent(Experiments)
                   = Join(SubSeq(ExperimentLines, k, Len(ExperimentLines)), <<NL>>)

\* C24: the experiments field is split into setup and quantitative results
\* only at a line that exactly equals one of the fixed results-heading
\* strings; setup is the lines before that line and results the lines from it
\* on, and a line that merely contains such a phrase does not split the field.
C24_SplitAtExactHeadingOnly ==
    QuantitativeResultsAdded =>
        /\ SlideShows("Experimental Setup", SetupContent(Experiments))
        /\ SlideShows("Results - Quantitative", ResultsContent(Experiments))
        /\ SplitAtExactHeading

-----------------------------------------------------------------------------
(* The deck that generate_powerpoint returns (SpecDeck).                   *)

\* C25: whenever generate_powerpoint returns a buffer instead of raising, the
\* deck holds at least one section slide between the cover and the thank-you
\* slide (at least 3 slides): every document that passes the content guard
\* produces a slide for some section.
C25_ReturnedDeckHasSectionSlide ==
    (gpc = "returned" /\ outcome = "buffer") =>
        /\ Len(slides) >= 3
        /\ \E k \in 2..(Len(slides) - 1) : IsSectionSlide(slides[k])

-----------------------------------------------------------------------------
(* One analyze_pdf request: the three validations, analyze_paper with its  *)
(* text extraction, and the chat completion requests of _call_openrouter.  *)
(* JSON texts are strings over the characters of MessageChars.             *)

MaxContent == 3    \* longest message content the language model returns

MessageChars == {"{", "}", "1"}

\* response.choices[0].message.content of a request that did not fail
MessageContents == SeqsUpTo(MessageChars, MaxContent)

\* what a request does: it raises, or it returns a message content
RequestOutcomes == {<<"failed", <<>>>>} \cup {<<"content", c>> : c \in MessageContents}

\* the uploads a request can carry
PdfNames == {<<"p", ".", "p", "d", "f">>, <<"p", ".", "t", "x", "t">>,
             <<"p", "d", "f">>, <<"p", ".", "P", "D", "F">>}

MinTextLength == 100

PdfFiles ==
    {<<FALSE, <<>>, 0, TRUE, 0>>}
    \cup {<<TRUE, n, over, ok, len>> :
             n \in PdfNames, over \in {-1, 0, 1}, ok \in BOOLEAN,
             len \in {0, MinTextLength - 1, MinTextLength}}

\* json.loads(content): the kind of value it returns, "raise" if it raises
JsonLoads(c) ==
    IF c = <<"{", "}">> THEN "dict"
    ELSE IF c # <<>> /\ \A k \in 1..Len(c) : c[k] = "1" THEN "int"
    ELSE "raise"

\* re.search(r'\{[\s\S]*\}', content): from the first opening brace to the
\* last closing brace behind it; content itself when there is no match
JsonMatch(c) ==
    LET opens == {k \in 1..Len(c) : c[k] = "{"}
    IN  IF opens = {} THEN c
        ELSE LET a == CHOOSE k \in opens : \A j \in opens : k <= j
                 closes == {k \in (a + 1)..Len(c) : c[k] = "}"}
             IN  IF closes = {} THEN c
                 ELSE SubSeq(c, a, CHOOSE k \in closes : \A j \in closes : j <= k)

\* the text json.loads is given: the content as it is with response_format,
\* the matched part of it in the second attempt
LoadedText(response_format, c) == IF response_format THEN c ELSE JsonMatch(c)

\* an attempt that raises only when its request fails
AttemptRaises_RequestOnly(response_format, o) == o[1] = "failed"

\* the attempt leaves its try block by an exception
AttemptRaises(response_format, o) ==
    o[1] = "failed" \/ JsonLoads(LoadedText(response_format, o[2])) = "raise"

\* validations without the size test
Rejection_NoSizeTest(f) ==
    IF ~f[1] THEN "No PDF file uploaded. Please select a file."
    ELSE IF ~EndsWith(f[2], <<".", "p", "d", "f">>)
    THEN "Invalid file format. Please upload a PDF file."
    ELSE ""

\* the first of the validations of analyze_pdf that rejects the upload, "" if none
Rejection(f) ==
    IF ~f[1] THEN "No PDF file uploaded. Please select a file."
    ELSE IF ~EndsWith(f[2], <<".", "p", "d", "f">>)
    THEN "Invalid file format. Please upload a PDF file."
    ELSE IF f[3] > 0 THEN "File size exceeds {MAX_PDF_SIZE_MB}MB limit."
    ELSE ""

InitAnalyze ==
    /\ view = "analyze"
    /\ http_response = NoResponse
    /\ save_to_db = FALSE
    /\ records = {}
    /\ pdf_file \in PdfFiles
    /\ apc = "start"
    /\ api_calls = <<>>
    /\ call_result = NotCalled
    /\ IdleOwner
    /\ IdleSlide /\ IdleDeck /\ IdleDoc /\ IdlePdf /\ IdleFrame /\ IdleAgain

\* one of the three early returns with status 400
AnalyzeRejects ==
    /\ apc = "start" /\ Rejection(pdf_file) # ""
    /\ http_response' = JsonError(400, Rejection(pdf_file), "")
    /\ apc' = "responded"
    /\ UNCHANGED <<view, save_to_db, records, pdf_file, api_calls, call_result, ownerVars>>
    /\ UNCHANGED <<slideVars, deckVars, docVars, pdfVars, frameVars, againVars>>

\* analyze_paper is called: the text is extracted and tested for its length
AnalyzeExtracts ==
    /\ apc = "start" /\ Rejection(pdf_file) = ""
    /\ IF ~pdf_file[4]
       THEN apc' = "raised" /\ call_result' = <<"raised", "extract", <<>>>>
       ELSE IF pdf_file[5] < MinTextLength
       THEN apc' = "raised" /\ call_result' = <<"raised", "short", <<>>>>
       ELSE apc' = "first" /\ call_result' = <<"running", "", <<>>>>
    /\ UNCHANGED <<view, http_response, save_to_db, records, pdf_file, api_calls, ownerVars>>
    /\ UNCHANGED <<slideVars, deckVars, docVars, pdfVars, frameVars, againVars>>

\* _call_openrouter, the outer try: the request with response_format
FirstAttempt ==
    /\ apc = "first"
    /\ \E o \in RequestOutcomes :
          /\ api_calls' = Append(api_calls, <<TRUE, o[1], o[2]>>)
          /\ IF AttemptRaises(TRUE, o)
             THEN apc' = "second" /\ UNCHANGED call_result
             ELSE /\ apc' = "analysed"
                  /\ call_result' = <<"returned", JsonLoads(o[2]), o[2]>>
    /\ UNCHANGED <<view, http_response, save_to_db, records, pdf_file, ownerVars>>
    /\ UNCHANGED <<slideVars, deckVars, docVars, pdfVars, frameVars, againVars>>

\* _call_openrouter, the except branch: the request without response_format;
\* what it raises goes up through call_llm_api and analyze_paper
SecondAttempt ==
    /\ apc = "second"
    /\ \E o \in RequestOutcomes :
          /\ api_calls' = Append(api_calls, <<FALSE, o[1], o[2]>>)
          /\ IF AttemptRaises(FALSE, o)
             THEN apc' = "raised" /\ call_result' = <<"raised", "api", <<>>>>
             ELSE /\ apc' = "analysed"
                  /\ call_result' = <<"returned", JsonLoads(JsonMatch(o[2])), JsonMatch(o[2])>>
    /\ UNCHANGED <<view, http_response, save_to_db, records, pdf_file, ownerVars>>
    /\ UNCHANGED <<slideVars, deckVars, docVars, pdfVars, frameVars, againVars>>

\* analyze_pdf after analyze_paper returned: analysis_result.get raises
\* unless the JSON value is a dict; otherwise the row is created
AnalyzeCreates ==
    /\ apc = "analysed"
    /\ IF call_result[2] = "dict"
       THEN /\ records' = records \cup {Created("PaperAnalysis", records, RequestUser)}
            /\ http_response' = <<"json", 200, "", "">>
       ELSE /\ UNCHANGED records
            /\ http_response' = JsonError(500, "", "object has no attribute 'get'")
    /\ apc' = "responded"
    /\ UNCHANGED <<view, save_to_db, pdf_file, api_calls, call_result, ownerVars>>
    /\ UNCHANGED <<slideVars, deckVars, docVars, pdfVars, frameVars, againVars>>

\* analyze_pdf, except Exception: analyze_paper raised
AnalyzeFails ==
    /\ apc = "raised"
    /\ http_response' = JsonError(500, "", call_result[2])
    /\ apc' = "responded"
    /\ UNCHANGED <<view, save_to_db, records, pdf_file, api_calls, call_result, ownerVars>>
    /\ UNCHANGED <<slideVars, deckVars, docVars, pdfVars, frameVars, againVars>>

NextAnalyze ==
    \/ AnalyzeRejects \/ AnalyzeExtracts \/ FirstAttempt \/ SecondAttempt
    \/ AnalyzeCreates \/ AnalyzeFails

SpecAnalyze == InitAnalyze /\ [][NextAnalyze]_vars

-----------------------------------------------------------------------------
(* Claims about analyze_pdf and _call_openrouter (SpecAnalyze).            *)

\* the request carries no file, a name not ending in .pdf, or too large a file
InvalidUpload ==
    \/ ~pdf_file[1]
    \/ Len(pdf_file[2]) < 4
    \/ SubSeq(pdf_file[2], Len(pdf_file[2]) - 3, Len(pdf_file[2])) # <<".", "p", "d", "f">>
    \/ pdf_file[3] >= 1

Responded == apc = "responded"

\* C27: analyze_pdf creates a PaperAnalysis row only after analyze_paper
\* returned; an invalid upload is answered 400 with no analysis call and no
\* row; an upload whose analysis raises (a text of fewer than 100 characters
\* included) is answered 500 with no row.
C27_RecordOnlyAfterAnalysis ==
    /\ records # {} => call_result[1] = "returned"
    /\ InvalidUpload =>
          /\ call_result = NotCalled /\ api_calls = <<>> /\ records = {}
          /\ Responded => http_response[2] = 400
    /\ call_result[1] = "raised" =>
          /\ records = {}
          /\ Responded => http_response[2] = 500
    /\ (~InvalidUpload /\ pdf_file[5] < MinTextLength /\ apc # "start")
          => call_result[1] = "raised"

\* a readable PDF with too little text was answered 500
C27_Witness ==
    /\ Responded /\ pdf_file[4] /\ pdf_file[5] = MinTextLength - 1
    /\ http_response[2] = 500 /\ records = {}

\* the request of attempt a returned a content that json.loads accepts (the
\* second attempt loads the part from the first { to the last })
Parses(a) ==
    /\ a[2] = "content"
    /\ JsonLoads(IF a[1] THEN a[3] ELSE JsonMatch(a[3])) # "raise"

\* C28: _call_openrouter sends at most two requests, the second one (without
\* response_format) only if the first attempt raised; it returns the parsed
\* JSON of the first attempt that succeeds and raises only when both failed.
C28_AtMostTwoRequests ==
    /\ Len(api_calls) <= 2
    /\ Len(api_calls) >= 1 => api_calls[1][1]
    /\ Len(api_calls) = 2 => ~api_calls[2][1] /\ ~Parses(api_calls[1])
    /\ call_result[1] = "returned" =>
          /\ api_calls # <<>>
          /\ Parses(api_calls[Len(api_calls)])
          /\ \A k \in 1..(Len(api_calls) - 1) : ~Parses(api_calls[k])
          /\ LET a == api_calls[Len(api_calls)]
             IN  call_result[3] = IF a[1] THEN a[3] ELSE JsonMatch(a[3])
    /\ (call_result[1] = "raised" /\ call_result[2] = "api") =>
          /\ Len(api_calls) = 2
          /\ \A k \in 1..2 : ~Parses(api_calls[k])

\* the first content was no JSON and the second attempt found JSON inside a
\* longer content
C28_Witness ==
    /\ call_result[1] = "returned" /\ Len(api_calls) = 2
    /\ api_calls[1][2] = "content"
    /\ call_result[3] # api_calls[2][3]

-----------------------------------------------------------------------------
(* The six views that are given the id of a record.                        *)

MaxId == 2    \* largest id of a row of either model

Models == {"PaperAnalysis", "PPTGeneration"}

\* the databases: per model and id at most one row, owned by one of the users;
\* every row names its own stored file
Databases ==
    UNION {{{<<k[1], k[2], owner[k], k>> : k \in keys} : owner \in [keys -> Users]} :
              keys \in SUBSET (Models \X (1..MaxId))}

RecordViews ==
    {"analysis_detail", "delete_analysis", "export_analysis_pdf",
     "generate_ppt_from_history", "ppt_detail", "delete_ppt"}

\* the model whose rows the view looks up
ModelOf(v) == IF v \in {"ppt_detail", "delete_ppt"} THEN "PPTGeneration" ELSE "PaperAnalysis"

\* the rows a lookup without the user filter finds
get_object_or_404_AnyUser(model, id, user) ==
    {r \in records : r[1] = model /\ r[2] = id}

\* get_object_or_404(Model, id=id, user=request.user): the rows found; Http404
\* is raised when there is none
get_object_or_404(model, id, user) ==
    {r \in records : r[1] = model /\ r[2] = id /\ r[3] = user}

\* the row the view of this request works on
Found == get_object_or_404(ModelOf(view), record_id, RequestUser)

NotFound == <<"html", 404, "", "">>

InitOwner ==
    /\ view \in RecordViews
    /\ record_id \in 1..(MaxId + 1)
    /\ records \in Databases
    /\ files \in {{r[4] : r \in records},
                  {r[4] : r \in {q \in records : q[1] = "PPTGeneration"}}}
    /\ http_response = NoResponse
    /\ save_to_db = FALSE
    /\ pdf_file = <<>> /\ api_calls = <<>> /\ call_result = NotCalled
    /\ apc = "start"
    /\ analysis = <<>> /\ story = <<>> /\ ppc = "idle" /\ response = "none"
    /\ IdleSlide /\ IdleDeck /\ IdleDoc /\ IdleFrame /\ IdleAgain

\* Http404 leaves the view before its body
Answers404 ==
    /\ apc = "start" /\ Found = {}
    /\ http_response' = NotFound
    /\ apc' = "responded"
    /\ UNCHANGED <<view, save_to_db, records, pdf_file, api_calls, call_result, ownerVars>>
    /\ UNCHANGED <<slideVars, deckVars, docVars, pdfVars, frameVars, againVars>>

\* analysis_detail and ppt_detail render the row
ShowsDetail ==
    /\ apc = "start" /\ view \in {"analysis_detail", "ppt_detail"}
    /\ \E r \in Found :
          /\ analysis' = r
          /\ http_response' = <<"html", 200, "", "">>
    /\ apc' = "responded"
    /\ UNCHANGED <<view, save_to_db, records, pdf_file, api_calls, call_result, ownerVars>>
    /\ UNCHANGED <<story, ppc, response>>
    /\ UNCHANGED <<slideVars, deckVars, docVars, frameVars, againVars>>

\* export_analysis_pdf and generate_ppt_from_history build a file from the
\* row, or answer 500 when building it raises
ExportsRecord ==
    /\ apc = "start" /\ view \in {"export_analysis_pdf", "generate_ppt_from_history"}
    /\ \E r \in Found :
          /\ analysis' = r
          /\ http_response' \in
                {FileResponse,
                 JsonError(500, IF view = "export_analysis_pdf"
                                THEN "Failed to generate PDF. Please try again."
                                ELSE "Failed to generate PowerPoint. Please try again.", "")}
    /\ apc' = "responded"
    /\ UNCHANGED <<view, save_to_db, records, pdf_file, api_calls, call_result, ownerVars>>
    /\ UNCHANGED <<story, ppc, response>>
    /\ UNCHANGED <<slideVars, deckVars, docVars, frameVars, againVars>>

\* delete_analysis: os.remove of the file if it exists, then analysis.delete();
\* either may raise, which is answered 500
DeleteAnalysis ==
    /\ apc = "start" /\ view = "delete_analysis"
    /\ \E r \in Found, raised \in {"none", "remove", "delete"} :
          /\ analysis' = r
          /\ files' = IF raised = "remove" THEN files ELSE files \ {r[4]}
          /\ records' = IF raised = "none" THEN records \ {r} ELSE records
          /\ http_response' = IF raised = "none" THEN <<"json", 200, "", "">>
                              ELSE JsonError(500, "", raised)
    /\ apc' = "responded"
    /\ UNCHANGED <<view, save_to_db, pdf_file, api_calls, call_result, record_id>>
    /\ UNCHANGED <<story, ppc, response>>
    /\ UNCHANGED <<slideVars, deckVars, docVars, frameVars, againVars>>

\* delete_ppt: ppt.pdf_file.delete(save=False), then ppt.delete(); either may
\* raise, which is answered 500
DeletePpt ==
    /\ apc = "start" /\ view = "delete_ppt"
    /\ \E r \in Found, raised \in {"none", "remove", "delete"} :
          /\ analysis' = r
          /\ files' = IF raised = "remove" THEN files ELSE files \ {r[4]}
          /\ records' = IF raised = "none" THEN records \ {r} ELSE records
          /\ http_response' = IF raised = "none" THEN <<"json", 200, "", "">>
                              ELSE JsonError(500, "", raised)
    /\ apc' = "responded"
    /\ UNCHANGED <<view, save_to_db, pdf_file, api_calls, call_result, record_id>>
    /\ UNCHANGED <<story, ppc, response>>
    /\ UNCHANGED <<slideVars, deckVars, docVars, frameVars, againVars>>

NextOwner ==
    \/ Answers404 \/ ShowsDetail \/ ExportsRecord \/ DeleteAnalysis \/ DeletePpt

SpecOwner == InitOwner /\ [][NextOwner]_vars

\* no row with the id of the request and the model of the view belongs to the
\* requesting user
NoneOfTheirOwn ==
    \A r \in records :
        (r[1] = ModelOf(view) /\ r[2] = record_id) => r[3] # RequestUser

\* a step of the request changes nothing but its own position and response
\* and answers 404
Refused ==
    /\ http_response' = NotFound
    /\ records' = records /\ files' = files /\ analysis' = analysis

\* a step removes at most the row it fetched and that row's file
OnlyFetchedRemoved ==
    /\ records' \subseteq records /\ files' \subseteq files
    /\ records \ records' \subseteq {analysis'}
    /\ files \ files' \subseteq {analysis'[4]}

\* the row a view has fetched is the requesting user's row with the id of the
\* request, of the model of the view
FetchedIsOwn ==
    analysis # <<>> =>
        /\ analysis[1] = ModelOf(view) /\ analysis[2] = record_id
        /\ analysis[3] = RequestUser

-----------------------------------------------------------------------------
(* The break at the bullet limit of _add_formatted_text (SpecSlide).       *)

\* the loop is about to visit a bullet or numbered line with a full count
AtListLineWithFullCount ==
    /\ fpc = "loop" /\ line_no < Len(Lines)
    /\ bullet_count >= max_bullets_per_slide
    /\ LET stripped == Strip(Lines[line_no + 1])
       IN  /\ ~StartsWith(stripped, <<"#", "#", "#">>)
           /\ IsBullet(stripped) \/ NumberedMatch(stripped)

\* C30: a bullet or numbered line met with an item count of 6 ends the
\* processing of the content: the paragraphs emitted so far stay as they
\* are, and no later line of any kind adds anything to the text frame.
C30_LimitStopsProcessing ==
    /\ [][AtListLineWithFullCount => (fpc' = "broke" /\ text_frame' = text_frame)]_vars
    /\ [][fpc = "broke" => (fpc' = "returned" /\ text_frame' = text_frame)]_vars

\* the call returned by the break with a heading, paragraph or list line
\* still unvisited
C30_Witness ==
    /\ fpc = "returned" /\ line_no < Len(Lines)
    /\ \E k \in (line_no + 1)..Len(Lines) : Strip(Lines[k]) # <<>>
====
